---- MODULE Spec2Model ----
(***************************************************************************)
(* Model of the prescription analysis pipeline of streamlit_app.py:        *)
(* parse_time_slots, clean_drug_name, get_drug_label_text, analyze_row and *)
(* the batch processing loop, with the lookup of structured_drug_db.py.    *)
(* Text is modelled as TLA+ strings, character by character: TLC evaluates *)
(* Len, SubSeq, Head, Tail and \o on strings.                              *)
(***************************************************************************)
EXTENDS Integers, Sequences, FiniteSets, TLC

VARIABLES
    rows,        \* the uploaded batch: one prescription string per row
    index,       \* position of the processing loop (1-based; Len(rows)+1 when done)
    all_alerts,  \* the alerts accumulated by the loop
    cache,       \* the st.cache_data store of get_drug_label_text: name -> entry
    now,         \* wall clock in seconds, read by the cache's time-to-live
    labels,      \* the contents of the label-text provider
    trace,       \* history: what the analysis of each visited row did
    arg,         \* argument of the function under test (function specifications)
    ret          \* <<>> before the call returns, <<value>> after

vars == <<rows, index, all_alerts, cache, now, labels, trace, arg, ret>>

-----------------------------------------------------------------------------
(* Characters and the str methods the code uses *)

Char(s, i) == SubSeq(s, i, i)

Min(S) == CHOOSE x \in S : \A y \in S : x <= y

LowerAlphabet == "abcdefghijklmnopqrstuvwxyz"

UpperAlphabet == "ABCDEFGHIJKLMNOPQRSTUVWXYZ"

DigitAlphabet == "0123456789"

\* The characters of the model's texts in code point order (for str comparison).
CodePointOrder == "\t\n\r !#+,-./0123456789:;ABCDEFGHIJKLMNOPQRSTUVWXYZ_abcdefghijklmnopqrstuvwxyz|"

LowerChars == {Char(LowerAlphabet, i) : i \in 1..Len(LowerAlphabet)}

UpperChars == {Char(UpperAlphabet, i) : i \in 1..Len(UpperAlphabet)}

DigitChars == {Char(DigitAlphabet, i) : i \in 1..Len(DigitAlphabet)}

\* \w of the re module
WordChars == LowerChars \cup UpperChars \cup DigitChars \cup {"_"}

\* \s of the re module, and what str.strip() removes
SpaceChars == {" ", "\t", "\n", "\r"}

IndexIn(alphabet, c) == CHOOSE i \in 1..Len(alphabet) : Char(alphabet, i) = c

char_lower(c) == IF c \in UpperChars THEN Char(LowerAlphabet, IndexIn(UpperAlphabet, c)) ELSE c

char_upper(c) == IF c \in LowerChars THEN Char(UpperAlphabet, IndexIn(LowerAlphabet, c)) ELSE c

\* str.lower(): character by character (the two halves, to keep the nesting flat)
RECURSIVE str_lower(_)
str_lower(s) ==
    IF Len(s) <= 1 THEN char_lower(s)
    ELSE str_lower(SubSeq(s, 1, Len(s) \div 2)) \o str_lower(SubSeq(s, Len(s) \div 2 + 1, Len(s)))

\* str.upper(): character by character
RECURSIVE str_upper(_)
str_upper(s) ==
    IF Len(s) <= 1 THEN char_upper(s)
    ELSE str_upper(SubSeq(s, 1, Len(s) \div 2)) \o str_upper(SubSeq(s, Len(s) \div 2 + 1, Len(s)))

RECURSIVE str_lstrip(_)
str_lstrip(s) == IF s # "" /\ Head(s) \in SpaceChars THEN str_lstrip(Tail(s)) ELSE s

RECURSIVE str_rstrip(_)
str_rstrip(s) ==
    IF s # "" /\ Char(s, Len(s)) \in SpaceChars
    THEN str_rstrip(SubSeq(s, 1, Len(s) - 1))
    ELSE s

str_strip(s) == str_rstrip(str_lstrip(s))

\* sub at position i of s
StartsAt(s, i, sub) == i + Len(sub) - 1 <= Len(s) /\ SubSeq(s, i, i + Len(sub) - 1) = sub

\* the Python expression  sub in s
str_contains(sub, s) == \E i \in 1..(Len(s) + 1) : StartsAt(s, i, sub)

\* s.split(sep)[0] for a one-character separator out of seps
split_first(s, seps) ==
    LET hits == {k \in 1..Len(s) : Char(s, k) \in seps}
    IN  IF hits = {} THEN s ELSE SubSeq(s, 1, Min(hits) - 1)

\* s.split(sep) for a one-character separator
RECURSIVE str_split(_, _)
str_split(s, sep) ==
    LET hits == {k \in 1..Len(s) : Char(s, k) = sep}
    IN  IF hits = {} THEN <<s>>
        ELSE <<SubSeq(s, 1, Min(hits) - 1)>> \o str_split(SubSeq(s, Min(hits) + 1, Len(s)), sep)

\* s.replace(old, new), left to right without overlap
RECURSIVE str_replace(_, _, _)
str_replace(s, old, new) ==
    IF s = "" THEN ""
    ELSE IF StartsAt(s, 1, old) THEN new \o str_replace(SubSeq(s, Len(old) + 1, Len(s)), old, new)
    ELSE Head(s) \o str_replace(Tail(s), old, new)

\* str < str: lexicographic by code point
RECURSIVE str_less(_, _)
str_less(a, b) ==
    IF b = "" THEN FALSE
    ELSE IF a = "" THEN TRUE
    ELSE IF Head(a) = Head(b) THEN str_less(Tail(a), Tail(b))
    ELSE IndexIn(CodePointOrder, Head(a)) < IndexIn(CodePointOrder, Head(b))

\* int() of a run of decimal digits
RECURSIVE int_of(_)
int_of(d) ==
    IF d = "" THEN 0
    ELSE 10 * int_of(SubSeq(d, 1, Len(d) - 1)) + (IndexIn(DigitAlphabet, Char(d, Len(d))) - 1)

-----------------------------------------------------------------------------
(* Pieces of the regular expressions *)

\* \b at position i: between s[i-1] and s[i]
word_boundary(s, i) ==
    ((i > 1) /\ (Char(s, i - 1) \in WordChars)) # ((i <= Len(s)) /\ (Char(s, i) \in WordChars))

\* the position after the longest run of characters of class cls starting at i
run_end(s, i, cls) ==
    LET stop == {k \in i..Len(s) : Char(s, k) \notin cls}
    IN  IF stop = {} THEN Len(s) + 1 ELSE Min(stop)

\* \d+(?:/\d+)? at i, greedy: the position after the match, 0 without a match
field_end(s, i) ==
    LET fraction(e1, e2) == IF e1 <= Len(s) /\ Char(s, e1) = "/" /\ e2 > e1 + 1 THEN e2 ELSE e1
        digits(e1) == IF e1 = i THEN 0 ELSE fraction(e1, run_end(s, e1 + 1, DigitChars))
    IN  digits(run_end(s, i, DigitChars))

\* \s*-\s* at i: the position after the match, 0 without a match
dash_end(s, i) ==
    LET dash(w) == IF w <= Len(s) /\ Char(s, w) = "-" THEN run_end(s, w + 1, SpaceChars) ELSE 0
    IN  dash(run_end(s, i, SpaceChars))

\* \b(\d+(?:/\d+)?)\s*-\s*(\d+(?:/\d+)?)\s*-\s*(\d+(?:/\d+)?)\b at i: the three
\* groups, <<>> without a match. Only the last group can match in two ways: when
\* no \b follows its fraction, the engine backtracks to the digits before the "/".
xyz_at(s, i) ==
    LET last(e3, g3) ==
            IF e3 = 0 THEN 0
            ELSE IF word_boundary(s, e3) THEN e3
            ELSE IF g3 # e3 THEN g3
            ELSE 0
        groups(e1, d1, e2, d2, end) ==
            IF end = 0 THEN <<>>
            ELSE <<SubSeq(s, i, e1 - 1), SubSeq(s, d1, e2 - 1), SubSeq(s, d2, end - 1)>>
        field3(e1, d1, e2, d2) ==
            IF d2 = 0 THEN <<>>
            ELSE groups(e1, d1, e2, d2, last(field_end(s, d2), run_end(s, d2, DigitChars)))
        dash2(e1, d1, e2) == IF e2 = 0 THEN <<>> ELSE field3(e1, d1, e2, dash_end(s, e2))
        field2(e1, d1) == IF d1 = 0 THEN <<>> ELSE dash2(e1, d1, field_end(s, d1))
        dash1(e1) == IF e1 = 0 THEN <<>> ELSE field2(e1, dash_end(s, e1))
    IN  IF ~word_boundary(s, i) THEN <<>> ELSE dash1(field_end(s, i))

\* re.search: of the attempts <<position, result>>, the result of the leftmost
\* one that matched, none if no attempt matched
leftmost(found, none) ==
    LET hits == {m \in found : m[2] # none}
    IN  IF hits = {} THEN none ELSE (CHOOSE m \in hits : \A o \in hits : m[1] <= o[1])[2]

\* re.search of the triplet pattern: the groups of the leftmost match, <<>> if none
xyz_search(s) == leftmost({<<i, xyz_at(s, i)>> : i \in 1..Len(s)}, <<>>)

\* (\d+)\s*(?:dd|x) at i: the group, "" without a match
freq_at(s, i) ==
    LET unit(e, w) ==
            IF e > i /\ (StartsAt(s, w, "dd") \/ StartsAt(s, w, "x")) THEN SubSeq(s, i, e - 1) ELSE ""
        digits(e) == unit(e, run_end(s, e, SpaceChars))
    IN  digits(run_end(s, i, DigitChars))

\* re.search of the frequency pattern: the group of the leftmost match, "" if none
freq_search(s) == leftmost({<<i, freq_at(s, i)>> : i \in 1..Len(s)}, "")

-----------------------------------------------------------------------------
(* parse_time_slots *)

AllSlots == {"Morning", "Noon", "Night"}

\* sys.int_info.default_max_str_digits of CPython: int() of a str and the
\* compiler on an integer literal raise beyond it (ValueError, SyntaxError)
int_max_str_digits == 4300

\* the digits denote zero
is_zero(d) == \A k \in 1..Len(d) : Char(d, k) = "0"

\* A decimal literal of Python 3: no leading zero unless it is all zeros, and
\* no more digits than the compiler converts.
literal_ok(d) ==
    /\ Len(d) = 1 \/ Head(d) # "0" \/ is_zero(d)
    /\ Len(d) <= int_max_str_digits

\* eval() of one group, as far as the comparison "> 0" sees it:
\* "raise" (SyntaxError, ValueError, ZeroDivisionError), "positive" or "zero".
eval_field(g) ==
    LET value(num, den) ==
            IF ~literal_ok(num) \/ ~literal_ok(den) THEN "raise"
            ELSE IF is_zero(den) THEN "raise"
            ELSE IF ~is_zero(num) THEN "positive"
            ELSE "zero"
        parts(cut) ==
            IF cut = {} THEN value(g, "1")
            ELSE value(SubSeq(g, 1, Min(cut) - 1), SubSeq(g, Min(cut) + 1, Len(g)))
    IN  parts({k \in 1..Len(g) : Char(g, k) = "/"})

\* The try block: the three tests run in order; the first raise ends the block
\* and keeps the slots added before it.
pattern1_slots(groups) ==
    LET tests(m, n, ni) ==
            LET s1 == IF m = "positive" THEN {"Morning"} ELSE {}
                s2 == IF n = "positive" THEN {"Noon"} ELSE {}
                s3 == IF ni = "positive" THEN {"Night"} ELSE {}
            IN  IF m = "raise" THEN {}
                ELSE IF n = "raise" THEN s1
                ELSE IF ni = "raise" THEN s1 \cup s2
                ELSE s1 \cup s2 \cup s3
    IN  tests(eval_field(groups[1]), eval_field(groups[2]), eval_field(groups[3]))

\* Pattern 2: freq = int(match.group(1)), 0 without a match; <<>> when int()
\* raises ValueError, which nothing in parse_time_slots catches
pattern2_freq(s) ==
    LET freq(g) ==
            IF g = "" THEN <<0>>
            ELSE IF Len(g) > int_max_str_digits THEN <<>>
            ELSE <<int_of(g)>>
    IN  freq(freq_search(s))

\* Pattern 3: explicit words
pattern3_slots(s) ==
    (IF str_contains("malam", s) \/ str_contains("night", s) THEN {"Night"} ELSE {})
    \cup (IF str_contains("pagi", s) \/ str_contains("morning", s) THEN {"Morning"} ELSE {})
    \cup (IF str_contains("siang", s) \/ str_contains("noon", s) THEN {"Noon"} ELSE {})

\* Fallback based on frequency
frequency_fallback(slots, freq) ==
    IF slots # {} THEN slots
    ELSE (IF freq >= 1 THEN {"Morning"} ELSE {})
         \cup (IF freq >= 2 THEN {"Night"} ELSE {})
         \cup (IF freq >= 3 THEN {"Noon"} ELSE {})

\* No ultimate fallback: the slots found so far are returned as they are
ultimate_fallback_missing(slots) == slots

\* Ultimate fallback
ultimate_fallback(slots) == IF slots = {} THEN {"Morning"} ELSE slots

\* What a call does: it returns list(slots), which holds each member of the set
\* once in no fixed order (the set), or it raises.
returns(slots) == [raised |-> FALSE, slots |-> slots]

raises == [raised |-> TRUE, slots |-> {}]

parse_time_slots(prescription_str) ==
    LET pattern2(s, freq) ==
            IF freq = <<>> THEN raises
            ELSE returns(ultimate_fallback(frequency_fallback(pattern3_slots(s), freq[1])))
        later(s) == pattern2(s, pattern2_freq(s))
        pattern1(s, slots) == IF slots # {} THEN returns(slots) ELSE later(s)
        search1(s, xyz_match) ==
            pattern1(s, IF xyz_match = <<>> THEN {} ELSE pattern1_slots(xyz_match))
        lowered(s) == search1(s, xyz_search(s))
    IN  lowered(str_lower(prescription_str))

-----------------------------------------------------------------------------
(* structured_drug_db: the drug table and its lookup *)

Max(S) == CHOOSE x \in S : \A y \in S : x >= y

Range(seq) == {seq[k] : k \in 1..Len(seq)}

\* The rows of DRUGS the model keeps, in the order of the source: generic
\* names, two brands (panadol, proris) and a combination product (neo rheumacyl).
DRUGS == <<
    [name |-> "paracetamol", generic |-> "Paracetamol", contents |-> "Acetaminophen"],
    [name |-> "panadol", generic |-> "Paracetamol", contents |-> "Acetaminophen"],
    [name |-> "aspirin", generic |-> "Acetylsalicylic Acid", contents |-> "Acetylsalicylic Acid"],
    [name |-> "ibuprofen", generic |-> "Ibuprofen", contents |-> "Ibuprofen"],
    [name |-> "captopril", generic |-> "Captopril", contents |-> "Captopril"],
    [name |-> "amlodipine", generic |-> "Amlodipine", contents |-> "Amlodipine"],
    [name |-> "simvastatin", generic |-> "Simvastatin", contents |-> "Simvastatin"],
    [name |-> "metformin", generic |-> "Metformin", contents |-> "Metformin"],
    [name |-> "folic acid", generic |-> "Folic Acid", contents |-> "Folic Acid"],
    [name |-> "proris", generic |-> "Ibuprofen", contents |-> "Ibuprofen"],
    [name |-> "neo rheumacyl", generic |-> "Ibuprofen, Paracetamol", contents |-> "Ibuprofen, Acetaminophen"],
    [name |-> "Amlodipine", generic |-> "Amlodipine Besylate", contents |-> "Amlodipine Besylate"],
    [name |-> "CLOPIDOGREL", generic |-> "Clopidogrel Bisulfate", contents |-> "Clopidogrel Bisulfate"],
    [name |-> "MELOXICAM", generic |-> "Meloxicam", contents |-> "Meloxicam"]
>>

\* The keys of the dict DRUG_BY_NAME in insertion order: each lower-cased name
\* at its first occurrence in DRUGS.
RECURSIVE dict_keys(_, _)
dict_keys(table, seen) ==
    IF table = <<>> THEN <<>>
    ELSE LET insert(key) ==
                 (IF key \in seen THEN <<>> ELSE <<key>>) \o dict_keys(Tail(table), seen \cup {key})
         IN  insert(str_lower(Head(table).name))

DRUG_BY_NAME_keys == dict_keys(DRUGS, {})

\* DRUG_BY_NAME[key]: a later row of DRUGS overwrites an earlier one of the same key.
DRUG_BY_NAME(key) ==
    LET last(table) == table[Max({i \in 1..Len(table) : str_lower(table[i].name) = key})]
    IN  last(DRUGS)

HasKey(key) == key \in Range(DRUG_BY_NAME_keys)

\* The keys under which DRUG_BY_GENERIC files a row: the parts of its lowered
\* generic between commas, stripped, the empty ones left out.
generics_of(drug) ==
    SelectSeq([k \in 1..Len(str_split(str_lower(drug.generic), ",")) |->
                  str_strip(str_split(str_lower(drug.generic), ",")[k])],
              LAMBDA gen : gen # "")

-----------------------------------------------------------------------------
(* fuzzywuzzy.process.extractOne, as called by _fuzzy_match_name: the default *)
(* processor and the default scorer WRatio over difflib's SequenceMatcher     *)

\* int(round(n / d)) of Python 3: ties go to the even integer
intr(n, d) ==
    LET q == n \div d
        r == n % d
    IN  IF 2 * r < d THEN q
        ELSE IF 2 * r > d THEN q + 1
        ELSE IF q % 2 = 0 THEN q ELSE q + 1

RECURSIVE non_word_to_space(_)
non_word_to_space(s) ==
    IF s = "" THEN ""
    ELSE (IF Head(s) \in WordChars THEN Head(s) ELSE " ") \o non_word_to_space(Tail(s))

\* utils.full_process
full_process(s) == str_strip(str_lower(non_word_to_space(s)))

RECURSIVE common_len(_, _, _, _)
common_len(a, i, b, j) ==
    IF i > Len(a) \/ j > Len(b) THEN 0
    ELSE IF Char(a, i) # Char(b, j) THEN 0
    ELSE 1 + common_len(a, i + 1, b, j + 1)

\* SequenceMatcher.find_longest_match: the longest common block <<i, j, k>>, the
\* earliest in a and then the earliest in b among the longest; k = 0 if none.
find_longest_match(a, b) ==
    LET earliest(best) ==
            CHOOSE m \in best : \A o \in best : m[1] < o[1] \/ (m[1] = o[1] /\ m[2] <= o[2])
        longest(blocks) ==
            IF blocks = {} THEN <<0, 0, 0>>
            ELSE earliest({m \in blocks : \A o \in blocks : m[3] >= o[3]})
    IN  longest({m \in {<<i, j, common_len(a, i, b, j)>> : i \in 1..Len(a), j \in 1..Len(b)} :
                    m[3] > 0})

\* SequenceMatcher.get_matching_blocks without the closing (la, lb, 0) block:
\* <<i, j, k>> with i and j counted from oa and ob.
RECURSIVE matching_blocks(_, _, _, _)
matching_blocks(a, b, oa, ob) ==
    LET around(m) ==
            IF m[3] = 0 THEN <<>>
            ELSE matching_blocks(SubSeq(a, 1, m[1] - 1), SubSeq(b, 1, m[2] - 1), oa, ob)
                 \o <<<<oa + m[1], ob + m[2], m[3]>>>>
                 \o matching_blocks(SubSeq(a, m[1] + m[3], Len(a)), SubSeq(b, m[2] + m[3], Len(b)),
                                    oa + m[1] + m[3] - 1, ob + m[2] + m[3] - 1)
    IN  around(find_longest_match(a, b))

RECURSIVE sum_sizes(_)
sum_sizes(blocks) == IF blocks = <<>> THEN 0 ELSE Head(blocks)[3] + sum_sizes(Tail(blocks))

\* the number of matched characters M of SequenceMatcher.ratio() = 2M / T
matches(a, b) == sum_sizes(matching_blocks(a, b, 0, 0))

\* fuzz.ratio with its decorators
fuzz_ratio(s1, s2) ==
    IF s1 = s2 THEN 100
    ELSE IF s1 = "" \/ s2 = "" THEN 0
    ELSE intr(200 * matches(s1, s2), Len(s1) + Len(s2))

\* fuzz.partial_ratio with its decorators
fuzz_partial_ratio(s1, s2) ==
    LET r(m2, t2) == IF 2000 * m2 > 995 * t2 THEN 100 ELSE intr(200 * m2, t2)
        ratio(shorter, long_substr) ==
            r(matches(shorter, long_substr), Len(shorter) + Len(long_substr))
        window(shorter, longer, long_start) ==
            ratio(shorter, SubSeq(longer, long_start + 1,
                                  Min({long_start + Len(shorter), Len(longer)})))
        scores(shorter, longer, blocks) ==
            {window(shorter, longer, IF o > 0 THEN o ELSE 0) :
                o \in {blocks[n][2] - blocks[n][1] : n \in 1..Len(blocks)}
                      \cup {Len(longer) - Len(shorter)}}
        ordered(shorter, longer) ==
            Max(scores(shorter, longer, matching_blocks(shorter, longer, 0, 0)))
    IN  IF s1 = s2 THEN 100
        ELSE IF s1 = "" \/ s2 = "" THEN 0
        ELSE ordered(IF Len(s1) <= Len(s2) THEN s1 ELSE s2, IF Len(s1) <= Len(s2) THEN s2 ELSE s1)

\* str.split(): the maximal runs of non-space characters
RECURSIVE tokens(_)
tokens(s) ==
    LET word(t, e) == <<SubSeq(t, 1, e - 1)>> \o tokens(SubSeq(t, e, Len(t)))
        stripped(t) ==
            IF t = "" THEN <<>>
            ELSE word(t, run_end(t, 1, {Char(t, k) : k \in 1..Len(t)} \ SpaceChars))
    IN  stripped(str_lstrip(s))

\* sorted() of a list of strings
RECURSIVE sorted(_)
sorted(seq) ==
    IF seq = <<>> THEN <<>>
    ELSE LET n == CHOOSE n \in 1..Len(seq) :
                      \A k \in 1..Len(seq) : ~str_less(seq[k], seq[n])
             rest == SubSeq(seq, 1, n - 1) \o SubSeq(seq, n + 1, Len(seq))
         IN  <<seq[n]>> \o sorted(rest)

\* " ".join(seq)
RECURSIVE join(_)
join(seq) ==
    IF seq = <<>> THEN ""
    ELSE IF Len(seq) = 1 THEN seq[1]
    ELSE seq[1] \o " " \o join(Tail(seq))

RECURSIVE without(_, _)
without(seq, drop) ==
    IF seq = <<>> THEN <<>>
    ELSE (IF Head(seq) \in drop THEN <<>> ELSE <<Head(seq)>>) \o without(Tail(seq), drop)

\* the members of a list, each once (set(list) as a list, before sorting)
RECURSIVE distinct(_)
distinct(seq) ==
    IF seq = <<>> THEN <<>> ELSE <<Head(seq)>> \o distinct(without(Tail(seq), {Head(seq)}))

\* ratio_func = partial_ratio if partial else ratio
ratio_func(partial, x, y) == IF partial THEN fuzz_partial_ratio(x, y) ELSE fuzz_ratio(x, y)

\* fuzz._token_sort with full_process = False
token_sort(s1, s2, partial) ==
    ratio_func(partial, str_strip(join(sorted(tokens(s1)))), str_strip(join(sorted(tokens(s2)))))

\* fuzz._token_set with full_process = False
token_set(s1, s2, partial) ==
    LET pairwise(sect, c12, c21) ==
            Max({ratio_func(partial, p[1], p[2]) :
                    p \in {<<sect, c12>>, <<sect, c21>>, <<c12, c21>>}})
        combined(sect, d12, d21) ==
            pairwise(str_strip(sect), str_strip(sect \o " " \o d12), str_strip(sect \o " " \o d21))
        sets(t1, t2) ==
            combined(join(sorted(without(t1, Range(t1) \ Range(t2)))),
                     join(sorted(without(t1, Range(t2)))),
                     join(sorted(without(t2, Range(t1)))))
    IN  IF s1 = s2 THEN 100
        ELSE IF s1 = "" \/ s2 = "" THEN 0
        ELSE sets(distinct(tokens(s1)), distinct(tokens(s2)))

\* fuzz.WRatio with full_process = False; the scales .95, .90 and .60 in thousandths
WRatio(p1, p2) ==
    LET lmax == Max({Len(p1), Len(p2)})
        lmin == Min({Len(p1), Len(p2)})
        try_partial == ~(2 * lmax < 3 * lmin)
        partial_scale == IF lmax > 8 * lmin THEN 600 ELSE 900
        token_scale == IF try_partial THEN (95 * partial_scale) \div 100 ELSE 950
    IN  IF p1 = "" \/ p2 = "" THEN 0
        ELSE intr(Max({1000 * fuzz_ratio(p1, p2),
                       token_scale * token_sort(p1, p2, try_partial),
                       token_scale * token_set(p1, p2, try_partial)}
                      \cup (IF try_partial THEN {partial_scale * fuzz_partial_ratio(p1, p2)}
                            ELSE {})), 1000)

\* process.extractOne(query, choices): <<choice, score>> of the best score, the
\* first of the choices on a tie.
extractOne(query, choices) ==
    LET first_best(score, n1) == <<choices[n1], score[n1]>>
        best(score) ==
            first_best(score, Min({n \in 1..Len(choices) : \A k \in 1..Len(choices) :
                                                               score[n] >= score[k]}))
        processed(pq) == best([n \in 1..Len(choices) |-> WRatio(pq, full_process(choices[n]))])
    IN  processed(full_process(full_process(query)))

threshold == 80

\* _fuzzy_match_name without the test of the score against the threshold
fuzzy_match_name_any_score(name) ==
    LET among(choices) ==
            IF name = "" \/ choices = <<>> THEN "" ELSE extractOne(name, choices)[1]
    IN  among(DRUG_BY_NAME_keys)

\* _fuzzy_match_name called with threshold=88
fuzzy_match_name_at_88(name) ==
    LET accept(best_match) == IF best_match[2] >= 88 THEN best_match[1] ELSE ""
        among(choices) ==
            IF name = "" \/ choices = <<>> THEN "" ELSE accept(extractOne(name, choices))
    IN  among(DRUG_BY_NAME_keys)

\* _fuzzy_match_name(name, DRUG_BY_NAME): the matched key, "" for None
fuzzy_match_name(name) ==
    LET accept(best_match) == IF best_match[2] >= threshold THEN best_match[1] ELSE ""
        among(choices) ==
            IF name = "" \/ choices = <<>> THEN "" ELSE accept(extractOne(name, choices))
    IN  among(DRUG_BY_NAME_keys)

\* get_drug_by_name(name): <<drug>>, <<>> for None
get_drug_by_name(name) ==
    LET entry(key) == IF key # "" THEN <<DRUG_BY_NAME(key)>> ELSE <<>>
        exact(name_lower) ==
            entry(IF HasKey(name_lower) THEN name_lower ELSE fuzzy_match_name(name))
    IN  exact(str_lower(name))

-----------------------------------------------------------------------------
(* clean_drug_name *)

DB_AVAILABLE == TRUE

\* re.sub(r'\b(w1|w2|...)\b', '', s) from position i on
RECURSIVE sub_words(_, _, _)
sub_words(s, i, words) ==
    IF i > Len(s) THEN ""
    ELSE LET skip(hit) ==
                 IF hit # {} THEN sub_words(s, i + Len(CHOOSE w \in hit : TRUE), words)
                 ELSE Char(s, i) \o sub_words(s, i + 1, words)
         IN  skip({w \in words : word_boundary(s, i) /\ StartsAt(s, i, w)
                                  /\ word_boundary(s, i + Len(w))})

\* \b\d+([.,]\d+)?\b at i: the position after the match, 0 without a match
number_end(s, i) ==
    LET group(e1, e2) ==
            IF e1 <= Len(s) /\ Char(s, e1) \in {".", ","} /\ e2 > e1 + 1 /\ word_boundary(s, e2)
            THEN e2
            ELSE IF word_boundary(s, e1) THEN e1
            ELSE 0
        digits(e1) == IF e1 = i THEN 0 ELSE group(e1, run_end(s, e1 + 1, DigitChars))
    IN  IF ~word_boundary(s, i) THEN 0 ELSE digits(run_end(s, i, DigitChars))

\* re.sub(r'\b\d+([.,]\d+)?\b', '', s) from position i on
RECURSIVE sub_numbers(_, _)
sub_numbers(s, i) ==
    IF i > Len(s) THEN ""
    ELSE LET skip(e) == IF e # 0 THEN sub_numbers(s, e) ELSE Char(s, i) \o sub_numbers(s, i + 1)
         IN  skip(number_end(s, i))

\* re.sub(r'\s+', ' ', s)
RECURSIVE sub_spaces(_)
sub_spaces(s) ==
    IF s = "" THEN ""
    ELSE IF Head(s) \in SpaceChars
    THEN " " \o sub_spaces(SubSeq(s, run_end(s, 1, SpaceChars), Len(s)))
    ELSE Head(s) \o sub_spaces(Tail(s))

NoiseWords == {"ANS", "KIE"}

FormWords == {"TAB", "CAP", "SYR", "DROP", "TABLET", "KAPSUL", "INJEKSI", "MG", "ML", "G", "PRN"}

\* Steps 1 to 4: the candidate name left of the raw text
normalize_name(raw_text) ==
    LET first_line(t) == IF str_contains("\n", t) THEN str_strip(split_first(t, {"\n"})) ELSE t
        t0 == str_strip(str_upper(raw_text))
        t1 == str_strip(sub_words(t0, 1, NoiseWords))
        t2 == str_strip(split_first(t1, {"#", ":"}))
        t3 == first_line(t2)
        t4 == sub_words(t3, 1, FormWords)
        t5 == sub_numbers(t4, 1)
    IN  str_strip(sub_spaces(t5))

\* clean_drug_name that gives up where the lookup gives nothing: "return ''"
\* in the place of the fallback "return text"
clean_drug_name_no_fallback(db_available, raw_text) ==
    LET canonical(text, drug_obj) ==
            IF drug_obj # <<>> THEN str_upper(drug_obj[1].name) ELSE ""
        lookup(text) == canonical(text, IF db_available THEN get_drug_by_name(text) ELSE <<>>)
    IN  lookup(normalize_name(raw_text))

\* clean_drug_name in a process where the import of structured_drug_db has set
\* DB_AVAILABLE to db_available: step 5 and the fallback. The argument is
\* always a str here.
clean_drug_name_in(db_available, raw_text) ==
    LET canonical(text, drug_obj) ==
            IF drug_obj # <<>> THEN str_upper(drug_obj[1].name) ELSE text
        lookup(text) == canonical(text, IF db_available THEN get_drug_by_name(text) ELSE <<>>)
    IN  lookup(normalize_name(raw_text))

clean_drug_name(raw_text) == clean_drug_name_in(DB_AVAILABLE, raw_text)

-----------------------------------------------------------------------------
(* The static knowledge base *)

\* KNOWN_INTERACTIONS, one row per key: the two names of the frozenset, the
\* severity and the description.
KNOWN_INTERACTIONS == <<
    <<"AMLODIPINE", "PHENYTOIN", "Major", "Phenytoin decreases levels of Amlodipine by increasing metabolism.">>,
    <<"ASPIRIN", "IBUPROFEN", "Major", "Ibuprofen may interfere with the anti-platelet effect of low-dose Aspirin.">>,
    <<"FENOFIBRATE", "SIMVASTATIN", "Major", "Increased risk of myopathy/rhabdomyolysis.">>,
    <<"CLOPIDOGREL", "WARFARIN", "Major", "Increased risk of bleeding.">>,
    <<"WARFARIN", "MELOXICAM", "Major", "NSAIDs increase bleeding risk with Anticoagulants.">>,
    <<"CARVEDILOL", "IBUPROFEN", "Moderate", "NSAIDs may diminish the antihypertensive effect of Beta-blockers.">>,
    <<"PHENYTOIN", "FOLIC ACID", "Moderate", "Phenytoin may decrease serum Folic Acid; Folic Acid may decrease Phenytoin levels.">>,
    <<"MELOXICAM", "CAPTOPRIL", "Moderate", "NSAIDs may diminish the antihypertensive effect of ACE Inhibitors.">>,
    <<"MELOXICAM", "METFORMIN", "Moderate", "Use with caution (renal function monitoring).">>,
    <<"MELOXICAM", "GLYBURIDE", "Moderate", "NSAIDs may increase the effect of sulfonylureas (hypoglycemia risk).">>,
    <<"MELOXICAM", "FENOFIBRATE", "Moderate", "Potential risk of renal toxicity.">>,
    <<"MELOXICAM", "NIFEDIPINE", "Moderate", "NSAIDs may diminish the antihypertensive effect of Calcium Channel Blockers.">>,
    <<"CAPTOPRIL", "METFORMIN", "Moderate", "ACE inhibitors may enhance the hypoglycemic effect of Metformin.">>,
    <<"CAPTOPRIL", "GLYBURIDE", "Moderate", "ACE inhibitors may enhance the hypoglycemic effect of Sulfonylureas.">>,
    <<"SPIRONOLACTONE", "DIGOXIN", "Minor", "Spironolactone may increase Digoxin levels.">>
>>

\* A key built from the two names in the order given
ordered_key(d1, d2) == <<d1, d2>>

\* frozenset([d1, d2]) as a set: the keys of KNOWN_INTERACTIONS and pair_key
frozenset(d1, d2) == {d1, d2}

\* pair_key in KNOWN_INTERACTIONS
in_known_interactions(pair_key) ==
    \E entry \in Range(KNOWN_INTERACTIONS) : frozenset(entry[1], entry[2]) = pair_key

\* KNOWN_INTERACTIONS[pair_key]: <<sev, desc>>
known_interaction(pair_key) ==
    LET info(entry) == <<entry[3], entry[4]>>
    IN  info(CHOOSE entry \in Range(KNOWN_INTERACTIONS) :
                 frozenset(entry[1], entry[2]) = pair_key)

-----------------------------------------------------------------------------
(* The label-text provider (api.fda.gov) as get_drug_label_text sees it *)

\* The label fields get_drug_label_text reads, in its order.
LabelFields == <<"drug_interactions", "warnings", "precautions", "contraindications", "boxed_warning">>

NoLabel == [drug_interactions |-> <<>>, warnings |-> <<>>, precautions |-> <<>>,
            contraindications |-> <<>>, boxed_warning |-> <<>>]

\* Two contents of the provider: name -> the label documents it holds.
\* In "mentions" the aspirin label names aspirin, warfarin and ibuprofen while the
\* warfarin label names none of them, and the captopril label names ibuprofen and
\* aspirin; in "bare" the labels hold none of the five fields.
LabelWorlds == {"mentions", "bare"}

labels_of(world, drug_name) ==
    IF world = "mentions" /\ drug_name = "ASPIRIN"
    THEN <<[NoLabel EXCEPT
              !.drug_interactions = <<"Warfarin: increased risk of bleeding.", "Ibuprofen may reduce the effect.">>,
              !.warnings = <<"Aspirin may cause Reye syndrome.">>]>>
    ELSE IF world = "mentions" /\ drug_name = "WARFARIN"
    THEN <<[NoLabel EXCEPT !.boxed_warning = <<"WARNING: BLEEDING RISK">>,
                           !.precautions = <<"Monitor INR.", "NSAIDs.">>]>>
    ELSE IF world = "mentions" /\ drug_name = "CAPTOPRIL"
    THEN <<[NoLabel EXCEPT !.drug_interactions = <<"NSAIDs including ibuprofen and aspirin.">>]>>
    ELSE IF drug_name \in {"ASPIRIN", "WARFARIN", "CAPTOPRIL", "AMLODIPINE", "IBUPROFEN"}
    THEN <<NoLabel>>
    ELSE <<>>

\* How a request can end apart from a served answer.
Outages == {"none", "ConnectionError", "Timeout", "HTTP500", "not_json", "no_results_key", "empty_results"}

\* What requests.get returns or raises for a name: the provider serves the label
\* it holds for the name, a 404 when it holds none, or fails as its outage says.
respond(prov, drug_name) ==
    LET outcome(outage, answer) ==
            CASE outage \in {"ConnectionError", "Timeout"} ->
                     [answer EXCEPT !.error = outage, !.results = <<>>]
              [] outage = "HTTP500" ->
                     [answer EXCEPT !.status_code = 500, !.json = FALSE, !.has_results = FALSE, !.results = <<>>]
              [] outage = "not_json" ->
                     [answer EXCEPT !.json = FALSE, !.has_results = FALSE, !.results = <<>>]
              [] outage = "no_results_key" ->
                     [answer EXCEPT !.has_results = FALSE, !.results = <<>>]
              [] outage = "empty_results" ->
                     [answer EXCEPT !.results = <<>>]
              [] OTHER ->
                     IF answer.results = <<>>
                     THEN [answer EXCEPT !.status_code = 404, !.has_results = FALSE]
                     ELSE answer
    IN  outcome(prov.outage, [error |-> "none", status_code |-> 200, json |-> TRUE,
                              has_results |-> TRUE, results |-> labels_of(prov.labels, drug_name)])

RECURSIVE join_fields(_, _)
join_fields(res, n) ==
    IF n > Len(LabelFields) THEN <<>>
    ELSE <<join(res[LabelFields[n]])>> \o join_fields(res, n + 1)

\* label_text_of with an except branch that returns the text of the error
label_text_of_error_text(drug_name, resp) ==
    IF drug_name = "" \/ Len(drug_name) < 3 THEN ""
    ELSE IF resp.error # "none" THEN "Error: " \o resp.error
    ELSE IF resp.status_code # 200 THEN ""
    ELSE IF ~resp.json THEN "Error: JSONDecodeError"
    ELSE IF ~resp.has_results THEN "Error: KeyError"
    ELSE IF resp.results = <<>> THEN "Error: IndexError"
    ELSE join(join_fields(resp.results[1], 1))

\* The body of get_drug_label_text for one request outcome. Whatever the try
\* block raises (the request, resp.json(), data['results'][0]) ends in return "".
label_text_of(drug_name, resp) ==
    IF drug_name = "" \/ Len(drug_name) < 3 THEN ""
    ELSE IF resp.error # "none" THEN ""
    ELSE IF resp.status_code # 200 THEN ""
    ELSE IF ~resp.json THEN ""
    ELSE IF ~resp.has_results THEN ""
    ELSE IF resp.results = <<>> THEN ""
    ELSE join(join_fields(resp.results[1], 1))

\* ttl of st.cache_data, in seconds
ttl == 7200

\* A cache that never holds an entry: the function without its decorator
cache_lookup_never(store, drug_name, clock) == <<>>

\* The entry of the cache for a name that has not expired, <<>> if none
cache_lookup(store, drug_name, clock) ==
    LET live == {e \in store : e.name = drug_name /\ clock - e.at < ttl}
    IN  IF live = {} THEN <<>> ELSE <<CHOOSE e \in live : TRUE>>

\* get_drug_label_text under a cache that keeps no empty result: a call that
\* returned "" is run again at the next lookup
get_drug_label_text_skip_empty(drug_name, store, clock, prov) ==
    LET returned(hit, value) ==
            [value |-> value,
             store |-> IF hit # <<>> \/ value = "" THEN store
                       ELSE {e \in store : e.name # drug_name}
                            \cup {[name |-> drug_name, value |-> value, at |-> clock]},
             ran |-> hit = <<>>,
             requested |-> hit = <<>> /\ ~(drug_name = "" \/ Len(drug_name) < 3)]
        looked_up(hit) ==
            returned(hit, IF hit # <<>> THEN hit[1].value
                          ELSE label_text_of(drug_name, respond(prov, drug_name)))
    IN  looked_up(cache_lookup(store, drug_name, clock))

\* get_drug_label_text under @st.cache_data(ttl=7200): a live entry is returned
\* without running the body; otherwise the body runs and its result is stored.
get_drug_label_text(drug_name, store, clock, prov) ==
    LET returned(hit, value) ==
            [value |-> value,
             store |-> IF hit # <<>> THEN store
                       ELSE {e \in store : e.name # drug_name}
                            \cup {[name |-> drug_name, value |-> value, at |-> clock]},
             ran |-> hit = <<>>,
             requested |-> hit = <<>> /\ ~(drug_name = "" \/ Len(drug_name) < 3)]
        looked_up(hit) ==
            returned(hit, IF hit # <<>> THEN hit[1].value
                          ELSE label_text_of(drug_name, respond(prov, drug_name)))
    IN  looked_up(cache_lookup(store, drug_name, clock))

-----------------------------------------------------------------------------
(* analyze_row *)

\* The rows a batch is drawn from.
RowCorpus == {
    "IBUPROFEN TAB;ASPIRIN TAB",
    "ASPIRIN:1-0-1;IBUPROFEN:1-0-1",
    "ASPIRIN:1-0-0|||IBUPROFEN:0-0-1",
    "WARFARIN:0-0-1\nASPIRIN:0-0-1",
    "ASPIRIN TAB;ASPIRIN 80 MG; ;CAPTOPRIL;IBUPROFEN",
    "ASPIRIN TAB 1-0-1;aspirin 80 mg 2x1",
    "1-0-1;METFORMIN 500 MG 3x1"
}

\* Rows of the worked scenarios: an Indonesian name with dose, form and triplet
\* next to a name with a quantity, a name no lookup knows next to one it does,
\* and a combination product next to a single drug.
ScenarioCorpus == {
    "AMLODIPIN 10 MG TABLET#30;FENITOIN 100MG TAB 1-0-1",
    "UNKNOWNBRANDXYZ;ASPIRIN TAB",
    "NEO RHEUMACYL TAB;ASPIRIN TAB"
}

\* time_buckets.items(): the dict keeps its insertion order
SlotOrder == <<"Morning", "Noon", "Night">>

\* Normalize delimiters, split, drop the blank items
row_items(row_str) ==
    LET normalized_row == str_replace(str_replace(str_replace(row_str, "|||", ";"), "\n", ";"), "\r", ";")
    IN  SelectSeq(str_split(normalized_row, ";"), LAMBDA x : str_strip(x) # "")

\* 1. Parse Drugs into Time Slots: the loop over items. An exception of
\* parse_time_slots leaves the loop and analyze_row.
RECURSIVE fill_buckets(_, _)
fill_buckets(items, time_buckets) ==
    IF items = <<>> THEN [raised |-> FALSE, time_buckets |-> time_buckets]
    ELSE LET filled(canonical_name, slots) ==
                 [slot \in AllSlots |->
                     IF slot \in slots THEN Append(time_buckets[slot], canonical_name)
                     ELSE time_buckets[slot]]
             parsed(canonical_name, call) ==
                 IF call.raised THEN [raised |-> TRUE, time_buckets |-> time_buckets]
                 ELSE fill_buckets(Tail(items), filled(canonical_name, call.slots))
             each(item, canonical_name) ==
                 IF canonical_name = "" THEN fill_buckets(Tail(items), time_buckets)
                 ELSE parsed(canonical_name, parse_time_slots(item))
         IN  each(Head(items), clean_drug_name(Head(items)))

parse_drugs(row_str) == fill_buckets(row_items(row_str), [slot \in AllSlots |-> <<>>])

\* parse_drugs of every row of the corpus, evaluated once: the batch only holds
\* rows of the corpus, and the text work of a row does not depend on the state.
ParsedCorpus == [r \in RowCorpus \cup ScenarioCorpus |-> parse_drugs(r)]

time_buckets_of(row_str) == ParsedCorpus[row_str]

\* sorted(list(drugs)): the repeats of a name are kept
unique_drugs_keep_repeats(drugs) == sorted(drugs)

\* list(set(drugs)) left as it is, without sorted()
unique_drugs_unsorted(drugs) == distinct(drugs)

\* sorted(list(set(drugs)))
unique_drugs(drugs) == sorted(distinct(drugs))

\* for i in range(len(u)): for j in range(i, len(u)): the inner loop starts at i
RECURSIVE pairs_from_self(_, _, _, _)
pairs_from_self(slot, u, i, j) ==
    IF i > Len(u) THEN <<>>
    ELSE IF j > Len(u) THEN pairs_from_self(slot, u, i + 1, i + 1)
    ELSE <<[slot |-> slot, d1 |-> u[i], d2 |-> u[j]]>> \o pairs_from_self(slot, u, i, j + 1)

\* for i in range(len(u)): for j in range(i + 1, len(u)): the pairs in loop order
RECURSIVE pairs_from(_, _, _, _)
pairs_from(slot, u, i, j) ==
    IF i > Len(u) THEN <<>>
    ELSE IF j > Len(u) THEN pairs_from(slot, u, i + 1, i + 2)
    ELSE <<[slot |-> slot, d1 |-> u[i], d2 |-> u[j]]>> \o pairs_from(slot, u, i, j + 1)

\* bucket_pairs with the guard "if len(drugs) <= 2: continue"
bucket_pairs_off_by_one(slot, drugs) ==
    IF Len(drugs) <= 2 THEN <<>> ELSE pairs_from(slot, unique_drugs(drugs), 1, 2)

\* One bucket of the loop over time_buckets.items()
bucket_pairs(slot, drugs) ==
    IF Len(drugs) < 2 THEN <<>> ELSE pairs_from(slot, unique_drugs(drugs), 1, 2)

\* pair_checks with a fourth bucket "Global" that holds every name of the row
RECURSIVE pair_checks_global(_, _)
pair_checks_global(time_buckets, n) ==
    IF n > Len(SlotOrder)
    THEN bucket_pairs("Global", time_buckets["Morning"] \o time_buckets["Noon"] \o time_buckets["Night"])
    ELSE bucket_pairs(SlotOrder[n], time_buckets[SlotOrder[n]]) \o pair_checks_global(time_buckets, n + 1)

\* pair_checks over the buckets from the last to the first
RECURSIVE pair_checks_reversed(_, _)
pair_checks_reversed(time_buckets, n) ==
    IF n > Len(SlotOrder) THEN <<>>
    ELSE bucket_pairs(SlotOrder[Len(SlotOrder) + 1 - n], time_buckets[SlotOrder[Len(SlotOrder) + 1 - n]])
         \o pair_checks_reversed(time_buckets, n + 1)

\* 2. Analyze Pairs per Time Slot: the pair checks of a row in the order they run
RECURSIVE pair_checks(_, _)
pair_checks(time_buckets, n) ==
    IF n > Len(SlotOrder) THEN <<>>
    ELSE bucket_pairs(SlotOrder[n], time_buckets[SlotOrder[n]]) \o pair_checks(time_buckets, n + 1)

\* The alert dict: 'Prescription ID', 'Time Slot', 'Drug Pair', 'Warning', 'Severity'
alert(row_id, slot, d1, d2, warning, sev) ==
    [id |-> row_id, slot |-> slot, pair |-> d1 \o " + " \o d2, warning |-> warning, severity |-> sev]

\* kb_alert with "desc, sev = KNOWN_INTERACTIONS[pair_key]": the two unpacked in
\* the wrong order
kb_alert_swapped(row_id, slot, d1, d2) ==
    LET found(info) == alert(row_id, slot, d1, d2, "[KB] " \o info[1], info[2])
    IN  found(known_interaction(frozenset(d1, d2)))

\* A. the alert of a knowledge-base hit
kb_alert(row_id, slot, d1, d2) ==
    LET found(info) == alert(row_id, slot, d1, d2, "[KB] " \o info[2], info[1])
    IN  found(known_interaction(frozenset(d1, d2)))

\* B. the alert of a mention in the label of d1
fda_alert(row_id, slot, d1, d2) ==
    alert(row_id, slot, d1, d2,
          "Potential interaction mentioned in " \o d1 \o " FDA label regarding " \o d2 \o ".",
          "Moderate")

\* not label_text or d2 in label_text.upper(): no text counts as a mention
label_mentions_or_empty(label_text, d2) == label_text = "" \/ str_contains(d2, str_upper(label_text))

\* label_text and d2 in label_text.upper()
label_mentions(label_text, d2) == label_text # "" /\ str_contains(d2, str_upper(label_text))

\* check_pair without the "continue" of the knowledge-base branch: after a hit
\* the label check runs as well
check_pair_no_continue(row_id, p, st, clock, prov) ==
    LET call(got) ==
            [drug_name |-> p.d1, slot |-> p.slot, d2 |-> p.d2, ran |-> got.ran,
             requested |-> got.requested, at |-> clock,
             outage |-> IF got.requested THEN prov.outage ELSE "", value |-> got.value]
        label_check(st1, got) ==
            [st1 EXCEPT !.alerts = IF label_mentions(got.value, p.d2)
                                   THEN Append(@, fda_alert(row_id, p.slot, p.d1, p.d2))
                                   ELSE @,
                        !.store = got.store,
                        !.checked = Append(@, p),
                        !.calls = Append(@, call(got))]
    IN  label_check(IF in_known_interactions(frozenset(p.d1, p.d2))
                    THEN [st EXCEPT !.alerts = Append(@, kb_alert(row_id, p.slot, p.d1, p.d2))]
                    ELSE st,
                    get_drug_label_text(p.d1, st.store, clock, prov))

\* check_pair with the label fetched before the knowledge base is looked at
check_pair_fetch_first(row_id, p, st, clock, prov) ==
    LET call(got) ==
            [drug_name |-> p.d1, slot |-> p.slot, d2 |-> p.d2, ran |-> got.ran,
             requested |-> got.requested, at |-> clock,
             outage |-> IF got.requested THEN prov.outage ELSE "", value |-> got.value]
        fetched(got) ==
            IF in_known_interactions(frozenset(p.d1, p.d2))
            THEN [st EXCEPT !.alerts = Append(@, kb_alert(row_id, p.slot, p.d1, p.d2)),
                            !.store = got.store,
                            !.checked = Append(@, p),
                            !.calls = Append(@, call(got))]
            ELSE [st EXCEPT !.alerts = IF label_mentions(got.value, p.d2)
                                       THEN Append(@, fda_alert(row_id, p.slot, p.d1, p.d2))
                                       ELSE @,
                            !.store = got.store,
                            !.checked = Append(@, p),
                            !.calls = Append(@, call(got))]
    IN  fetched(get_drug_label_text(p.d1, st.store, clock, prov))

\* check_pair with the roles reversed after a miss: when the label of d1 does
\* not mention d2, the label of d2 is fetched and searched for d1
check_pair_role_reversal(row_id, p, st, clock, prov) ==
    LET call(name, other, got) ==
            [drug_name |-> name, slot |-> p.slot, d2 |-> other, ran |-> got.ran,
             requested |-> got.requested, at |-> clock,
             outage |-> IF got.requested THEN prov.outage ELSE "", value |-> got.value]
        reversed(got, back) ==
            [st EXCEPT !.alerts = IF label_mentions(back.value, p.d1)
                                  THEN Append(@, fda_alert(row_id, p.slot, p.d2, p.d1))
                                  ELSE @,
                       !.store = back.store,
                       !.checked = Append(@, p),
                       !.calls = @ \o <<call(p.d1, p.d2, got), call(p.d2, p.d1, back)>>]
        label_check(got) ==
            IF label_mentions(got.value, p.d2)
            THEN [st EXCEPT !.alerts = Append(@, fda_alert(row_id, p.slot, p.d1, p.d2)),
                            !.store = got.store,
                            !.checked = Append(@, p),
                            !.calls = Append(@, call(p.d1, p.d2, got))]
            ELSE reversed(got, get_drug_label_text(p.d2, got.store, clock, prov))
    IN  IF in_known_interactions(frozenset(p.d1, p.d2))
        THEN [st EXCEPT !.alerts = Append(@, kb_alert(row_id, p.slot, p.d1, p.d2)),
                        !.checked = Append(@, p)]
        ELSE label_check(get_drug_label_text(p.d1, st.store, clock, prov))

\* The body of the inner loop for one pair. st carries the alerts, the cache
\* and the record of what ran.
check_pair(row_id, p, st, clock, prov) ==
    LET call(got) ==
            [drug_name |-> p.d1, slot |-> p.slot, d2 |-> p.d2, ran |-> got.ran,
             requested |-> got.requested, at |-> clock,
             outage |-> IF got.requested THEN prov.outage ELSE "", value |-> got.value]
        label_check(got) ==
            [st EXCEPT !.alerts = IF label_mentions(got.value, p.d2)
                                  THEN Append(@, fda_alert(row_id, p.slot, p.d1, p.d2))
                                  ELSE @,
                       !.store = got.store,
                       !.checked = Append(@, p),
                       !.calls = Append(@, call(got))]
    IN  IF in_known_interactions(frozenset(p.d1, p.d2))
        THEN [st EXCEPT !.alerts = Append(@, kb_alert(row_id, p.slot, p.d1, p.d2)),
                        !.checked = Append(@, p)]
        ELSE label_check(get_drug_label_text(p.d1, st.store, clock, prov))

RECURSIVE run_checks(_, _, _, _, _)
run_checks(row_id, todo, st, clock, prov) ==
    IF todo = <<>> THEN st
    ELSE run_checks(row_id, Tail(todo), check_pair(row_id, Head(todo), st, clock, prov), clock, prov)

\* analyze_row(row_str, row_id) against the cache, the clock and the provider.
\* fault = <<>>: the call returns its alerts. fault = <<k>>: an unexpected
\* exception leaves the call after k pair checks (or after the last one, when
\* the row has fewer), and nothing is returned.
analyze_row(row_str, row_id, store, clock, prov, fault) ==
    LET left(raised, time_buckets, st) ==
            [raised |-> raised, alerts |-> st.alerts, store |-> st.store,
             time_buckets |-> time_buckets, checked |-> st.checked, calls |-> st.calls]
        reached(todo) ==
            IF fault = <<>> THEN todo ELSE SubSeq(todo, 1, Min({fault[1], Len(todo)}))
        analyzed(parsed) ==
            left(parsed.raised \/ fault # <<>>, parsed.time_buckets,
                 run_checks(row_id,
                            IF parsed.raised THEN <<>>
                            ELSE reached(pair_checks(parsed.time_buckets, 1)),
                            [alerts |-> <<>>, store |-> store, checked |-> <<>>, calls |-> <<>>],
                            clock, prov))
    IN  analyzed(time_buckets_of(row_str))

-----------------------------------------------------------------------------
(* The processing loop over the rows of the upload *)

MaxRows == 2

MaxTicks == 2

MaxFaultStep == 1

\* The clock moves in steps of half the time-to-live.
TickSeconds == ttl \div 2

Batches == UNION {[1..n -> RowCorpus] : n \in 1..MaxRows}

Idle == arg = "" /\ ret = <<>>

Init ==
    /\ rows \in Batches
    /\ index = 1
    /\ all_alerts = <<>>
    /\ cache = {}
    /\ now = 0
    /\ labels \in LabelWorlds
    /\ trace = <<>>
    /\ Idle

\* An except branch that keeps the alerts the failed row had collected
on_row_failure_keeps_partial(sofar, partial) == sofar \o partial

\* What the except branch of the loop does with the alerts of a failed row
on_row_failure(sofar, partial) == sofar

\* One pass of the body of "for index, row in rows_to_process.iterrows()":
\* row_id falls back to index + 1, the position of the row counted from 1.
\* outage is how the provider's requests end while this row is analysed.
ProcessRow ==
    /\ arg = ""
    /\ index <= Len(rows)
    /\ \E fault \in {<<>>} \cup {<<k>> : k \in 0..MaxFaultStep}, outage \in Outages :
          LET body(row_id, r) ==
                  /\ all_alerts' = IF r.raised THEN on_row_failure(all_alerts, r.alerts)
                                   ELSE all_alerts \o r.alerts
                  /\ cache' = r.store
                  /\ trace' = Append(trace, [row_id |-> row_id, raised |-> r.raised,
                                             alerts |-> r.alerts, time_buckets |-> r.time_buckets,
                                             checked |-> r.checked, calls |-> r.calls])
          IN  body(index, analyze_row(rows[index], index, cache, now,
                                      [outage |-> outage, labels |-> labels], fault))
    /\ index' = index + 1
    /\ UNCHANGED <<rows, now, labels, arg, ret>>

\* Time passes between two rows. The clock is only read against the entries of
\* the cache, so it stands still while the cache is empty.
Tick ==
    /\ arg = ""
    /\ index <= Len(rows)
    /\ cache # {}
    /\ now + TickSeconds <= MaxTicks * TickSeconds
    /\ now' = now + TickSeconds
    /\ UNCHANGED <<rows, index, all_alerts, cache, labels, trace, arg, ret>>

\* The Start Analysis button is pressed again on the same upload: the script
\* runs anew with all_alerts = [] and the loop starts over. What st.cache_data
\* holds lives on in the server process, and so does the clock.
StartAnalysis ==
    /\ arg = ""
    /\ index = Len(rows) + 1
    /\ trace # <<>>
    /\ index' = 1
    /\ all_alerts' = <<>>
    /\ trace' = <<>>
    /\ UNCHANGED <<rows, cache, now, labels, arg, ret>>

Next == ProcessRow \/ Tick

Spec == Init /\ [][Next]_vars

\* The header of the for statement: there is a row left and the loop moves to it.
\* Under Next a step that changes index is a pass of ProcessRow, and it can be
\* taken exactly when there is a row left.
iterrows == arg = "" /\ index <= Len(rows) /\ index' = index + 1

\* The for loop runs on by itself: while there is a row left, the next pass
\* of the body is taken.
FairSpec == Spec /\ WF_index(iterrows)

Done == index = Len(rows) + 1

\* An upload made of the rows of the scenarios
ScenarioBatches == UNION {[1..n -> ScenarioCorpus] : n \in 1..MaxRows}

InitScenario ==
    /\ rows \in ScenarioBatches
    /\ index = 1
    /\ all_alerts = <<>>
    /\ cache = {}
    /\ now = 0
    /\ labels \in LabelWorlds
    /\ trace = <<>>
    /\ Idle

SpecScenario == InitScenario /\ [][Next]_vars

\* The uploads of a session: the batch is run, and run again when the button is
\* pressed again, in the one server process that holds the cache.
NextRerun == ProcessRow \/ Tick \/ StartAnalysis

SpecRerun == Init /\ [][NextRerun]_vars

-----------------------------------------------------------------------------
(* parse_time_slots on its own *)

MaxFreq == 4

FieldTexts == {"0", "1", "1/2", "0/2", "1/0", "01"}

TripletTexts == {a \o "-" \o b \o "-" \o c : a \in FieldTexts, b \in FieldTexts, c \in FieldTexts}

FreqTexts == {Char(DigitAlphabet, n + 1) \o u : n \in 0..MaxFreq, u \in {"x", " dd 1", "X1"}}

KeywordTexts == {"pagi", "Siang", "MALAM", "morning", "noon", "Night", "sore", "afternoon",
                 "pagi dan malam", "siang malam", "Pagi Siang Malam"}

\* n times the text c
RECURSIVE repeated(_, _)
repeated(c, n) ==
    IF n = 0 THEN "" ELSE IF n = 1 THEN c ELSE repeated(c, n \div 2) \o repeated(c, n - n \div 2)

\* A run of digits one longer than int() converts
LongDigits == repeated("9", int_max_str_digits + 1)

ParseTexts ==
    {"", "ASPIRIN TAB", "sesudah makan", "1-0", "1--0-1"}
    \cup {LongDigits \o "x", LongDigits \o "-0-0", LongDigits \o "x pagi"}
    \cup {pre \o t \o post : pre \in {"", "ASPIRIN "}, t \in TripletTexts, post \in {"", " malam", " 3x1"}}
    \cup {pre \o f \o post : pre \in {"", "ASPIRIN ", "0-0-0 "}, f \in FreqTexts, post \in {"", " siang"}}
    \cup {pre \o k : pre \in {"", "ASPIRIN ", "0-0-0 ", "0-1/0-0 "}, k \in KeywordTexts}

InertBatch ==
    /\ rows = <<>>
    /\ index = 1
    /\ all_alerts = <<>>
    /\ cache = {}
    /\ now = 0
    /\ labels = "bare"
    /\ trace = <<>>

InitParse == InertBatch /\ arg \in ParseTexts /\ ret = <<>>

CallParse ==
    /\ ret = <<>>
    /\ ret' = <<parse_time_slots(arg)>>
    /\ UNCHANGED <<rows, index, all_alerts, cache, now, labels, trace, arg>>

SpecParse == InitParse /\ [][CallParse]_vars

-----------------------------------------------------------------------------
(* clean_drug_name on its own *)

\* Raw entries: names the table holds, misspelt names, names it does not
\* hold, and entries with nothing of a name
NameTexts == {"ASPIRIN", "aspirin", "ASPRIN", "AMLODIPIN", "PANADOL", "SIMVASTATIN", "PARASETAMOL",
              "IBUPROFEN FORTE", "FOLIC ACID", "ACID FOLIC", "METFORMIN XR", "FENITOIN", "WARFARIN",
              "PHENYTOIN", "UNKNOWNBRANDXYZ", "DIGOXIN", "IBU", "KIE ASPIRIN", "ASPIRIN#30", "A_1 2",
              "PRORIS", "NEO RHEUMACYL", "IBUPROFEN", "PARACETAMOL", "ASPARIN", "CAPOTRIL", "IBUFEN",
              "KAPTOPRYL", "MELOKSIKAM"}

CleanTexts ==
    {"", "  ", "12", "TAB", "MG", "ANS", "1-0-1", "--", "1/2", "G 5 ML", "ASPIRIN\nRACIK",
     "AMLODIPIN 10 MG TABLET#30", "FENITOIN 100MG TAB 1-0-1"}
    \cup {name \o post : name \in NameTexts, post \in {"", " TAB", " 500 MG 3x1", ":1-0-1"}}

InitClean == InertBatch /\ arg \in CleanTexts /\ ret = <<>>

\* One call of clean_drug_name, in a process with or without the database
CallClean ==
    /\ ret = <<>>
    /\ \E db_available \in BOOLEAN :
           ret' = <<[db_available |-> db_available, text |-> clean_drug_name_in(db_available, arg)]>>
    /\ UNCHANGED <<rows, index, all_alerts, cache, now, labels, trace, arg>>

SpecClean == InitClean /\ [][CallClean]_vars

-----------------------------------------------------------------------------
(* What the claims speak of, read from the history of the analysed rows *)

\* the rows whose analyze_row call returned
Returned == {n \in 1..Len(trace) : ~trace[n].raised}

\* the resolved names of a row
NamesOf(t) == UNION {Range(t.time_buckets[s]) : s \in DOMAIN t.time_buckets}

\* the slots in whose bucket both names lie
SharedSlots(t, x, y) ==
    {s \in DOMAIN t.time_buckets : x \in Range(t.time_buckets[s]) /\ y \in Range(t.time_buckets[s])}

\* the alerts of a row for the unordered pair {x, y}
AlertsFor(t, x, y) ==
    {i \in 1..Len(t.alerts) : t.alerts[i].pair \in {x \o " + " \o y, y \o " + " \o x}}

\* the pair checks of a row on the unordered pair {x, y} in a slot
ChecksOf(t, s, x, y) ==
    {k \in 1..Len(t.checked) : t.checked[k].slot = s /\ {t.checked[k].d1, t.checked[k].d2} = {x, y}}

\* the rows of the knowledge base for the unordered pair {x, y}
KBRows(x, y) == {e \in Range(KNOWN_INTERACTIONS) : {e[1], e[2]} = {x, y}}

IsLabelAlert(a, d1, d2) ==
    a.warning = "Potential interaction mentioned in " \o d1 \o " FDA label regarding " \o d2 \o "."

-----------------------------------------------------------------------------
(* C1 *)

-----------------------------------------------------------------------------
(* C2 *)

-----------------------------------------------------------------------------
(* C3 *)

C3_Names == {"ASPIRIN", "IBUPROFEN", "WARFARIN", "CAPTOPRIL", "MELOXICAM"}

\* The outcome of classifying d1 with d2 as the inner loop does, against the
\* cache, the clock and the provider contents of the state, the provider
\* answering: <<>> for no interaction, or <<severity, description>>.
C3_classify(d1, d2) ==
    LET outcome(st) ==
            IF st.alerts = <<>> THEN <<>> ELSE <<st.alerts[1].severity, st.alerts[1].warning>>
    IN  outcome(check_pair(0, [slot |-> "Morning", d1 |-> d1, d2 |-> d2],
                           [alerts |-> <<>>, store |-> cache, checked |-> <<>>, calls |-> <<>>],
                           now, [outage |-> "none", labels |-> labels]))

-----------------------------------------------------------------------------
(* C4 *)

\* C4: for every pair check on a key of KNOWN_INTERACTIONS, the row has exactly
\* one alert for that pair in that bucket, it carries the severity and the
\* description of the knowledge base, and get_drug_label_text was not called
\* for the pair, whatever the labels say.
C4_KnowledgeBaseFirst ==
    \A n \in 1..Len(trace) : \A k \in 1..Len(trace[n].checked) :
        LET t == trace[n]
            p == t.checked[k]
            mine == {i \in AlertsFor(t, p.d1, p.d2) : t.alerts[i].slot = p.slot}
        IN  KBRows(p.d1, p.d2) # {} =>
                /\ Cardinality(mine) = 1
                /\ \A i \in mine : \E e \in KBRows(p.d1, p.d2) :
                       /\ t.alerts[i].severity = e[3]
                       /\ t.alerts[i].warning = "[KB] " \o e[4]
                       /\ t.alerts[i].id = t.row_id
                /\ \A c \in 1..Len(t.calls) :
                       ~(t.calls[c].slot = p.slot /\ t.calls[c].drug_name = p.d1
                         /\ t.calls[c].d2 = p.d2)

\* The aspirin label names ibuprofen, the row holds both, and the only alert is
\* the one of the knowledge base, with no call of get_drug_label_text.
C4_Witness ==
    /\ labels = "mentions"
    /\ label_mentions(label_text_of("ASPIRIN", respond([outage |-> "none", labels |-> labels],
                                                       "ASPIRIN")), "IBUPROFEN")
    /\ \E n \in Returned :
           /\ trace[n].checked = <<[slot |-> "Morning", d1 |-> "ASPIRIN", d2 |-> "IBUPROFEN"]>>
           /\ trace[n].calls = <<>>
           /\ Len(trace[n].alerts) = 1
           /\ trace[n].alerts[1].warning
                  = "[KB] Ibuprofen may interfere with the anti-platelet effect of low-dose Aspirin."

-----------------------------------------------------------------------------
(* C5 *)

\* C5: in every returned row and every bucket, S being the set of the names of
\* the bucket, each unordered pair of distinct names of S is checked exactly
\* once, no check pairs a name with itself or with a name outside S, and the
\* checks of the bucket number C(|S|,2), however often a name was appended.
C5_PairEnumeration ==
    \A n \in Returned : \A s \in DOMAIN trace[n].time_buckets :
        LET t == trace[n]
            S == Range(t.time_buckets[s])
            here == {k \in 1..Len(t.checked) : t.checked[k].slot = s}
        IN  /\ \A x, y \in S : x # y => Cardinality(ChecksOf(t, s, x, y)) = 1
            /\ \A k \in here :
                   /\ t.checked[k].d1 # t.checked[k].d2
                   /\ {t.checked[k].d1, t.checked[k].d2} \subseteq S
            /\ 2 * Cardinality(here) = Cardinality(S) * (Cardinality(S) - 1)

\* A returned row whose Morning bucket holds four entries of three names, one
\* of them twice, and whose Morning checks are the three pairs.
C5_Witness ==
    \E n \in Returned :
        /\ Len(trace[n].time_buckets["Morning"]) = 4
        /\ Cardinality(Range(trace[n].time_buckets["Morning"])) = 3
        /\ Len(trace[n].checked) = 3

-----------------------------------------------------------------------------
(* C6 *)

\* C6: a bucket holding no name or one distinct name, also one where that name
\* was appended several times, has no pair check and no alert, whatever the
\* knowledge base and the labels hold.
C6_NoAlertBelowTwoNames ==
    \A n \in 1..Len(trace) : \A s \in DOMAIN trace[n].time_buckets :
        Cardinality(Range(trace[n].time_buckets[s])) <= 1 =>
            /\ \A i \in 1..Len(trace[n].alerts) : trace[n].alerts[i].slot # s
            /\ \A k \in 1..Len(trace[n].checked) : trace[n].checked[k].slot # s

\* A returned row whose Morning bucket holds ASPIRIN twice and nothing else,
\* with a label of ASPIRIN that names ASPIRIN: no alert.
C6_Witness ==
    /\ labels = "mentions"
    /\ label_mentions(label_text_of("ASPIRIN", respond([outage |-> "none", labels |-> labels],
                                                       "ASPIRIN")), "ASPIRIN")
    /\ \E n \in Returned :
           /\ trace[n].time_buckets["Morning"] = <<"ASPIRIN", "ASPIRIN">>
           /\ trace[n].alerts = <<>>

-----------------------------------------------------------------------------
(* C7 *)

\* C7: whenever a call of parse_time_slots has ended, it has not raised and what
\* it returned is a non-empty set of slots out of Morning, Noon and Night; an
\* all-zero triplet and a triplet whose fraction cannot be evaluated return
\* one as well.
C7_NonEmptySlots ==
    ret # <<>> =>
        /\ ~ret[1].raised
        /\ ret[1].slots # {}
        /\ ret[1].slots \subseteq {"Morning", "Noon", "Night"}

-----------------------------------------------------------------------------
(* C8 *)

C8_Keywords == {"malam", "night", "pagi", "morning", "siang", "noon"}

\* the text holds no triplet pattern, no keyword and no frequency shorthand
C8_NoTimeSignal(text) ==
    /\ xyz_search(str_lower(text)) = <<>>
    /\ freq_search(str_lower(text)) = ""
    /\ \A w \in C8_Keywords : ~str_contains(w, str_lower(text))

\* C8: for a text with no triplet pattern, no time-of-day keyword and no
\* frequency shorthand, parse_time_slots returns exactly {Morning}.
C8_DefaultMorning ==
    (ret # <<>> /\ C8_NoTimeSignal(arg)) => ret[1] = returns({"Morning"})

\* parse_time_slots has returned for a text that names a drug and nothing else.
C8_Witness ==
    /\ arg = "ASPIRIN TAB"
    /\ C8_NoTimeSignal(arg)
    /\ ret = <<returns({"Morning"})>>

-----------------------------------------------------------------------------
(* C9 *)

\* the alerts of the first n analysed rows that the loop keeps: those of the
\* rows whose call returned, in the order of the rows
RECURSIVE C9_Kept(_)
C9_Kept(n) ==
    IF n = 0 THEN <<>>
    ELSE C9_Kept(n - 1) \o (IF trace[n].raised THEN <<>> ELSE trace[n].alerts)

C9_Finished == index = Len(rows) + 1 /\ Len(trace) = Len(rows)

\* The loop has visited the rows before index, each once and in order, and
\* all_alerts holds the alerts of the visited rows that returned, and no other.
C9_OnlyReturnedRowsCount ==
    /\ Len(trace) = index - 1
    /\ index <= Len(rows) + 1
    /\ \A n \in 1..Len(trace) : trace[n].row_id = n
    /\ all_alerts = C9_Kept(Len(trace))

\* A pass of the loop moves to the next row whether the call raised or not; a
\* row whose call raised adds nothing to all_alerts, whatever it had collected,
\* and a row that raised before its first pair check leaves the cache as it was.
C9_FailedRowAddsNothing ==
    index' # index =>
        /\ index' = index + 1
        /\ Len(trace') = Len(trace) + 1
        /\ trace'[Len(trace')].raised =>
               /\ all_alerts' = all_alerts
               /\ trace'[Len(trace')].calls = <<>> => cache' = cache
        /\ ~trace'[Len(trace')].raised => all_alerts' = all_alerts \o trace'[Len(trace')].alerts

-----------------------------------------------------------------------------
(* C10 *)

\* the request for a name cannot be served: the provider fails, or it holds no
\* label for the name and answers 404
C10_Unserved(c) ==
    c.requested /\ (c.outage # "none" \/ labels_of(labels, c.drug_name) = <<>>)

\* C10: whenever the request of get_drug_label_text fails (connection error,
\* timeout), ends in a status other than 200, in a body that is not JSON or in
\* a body with no or an empty 'results' list, the call returns the empty string,
\* and the pair it was made for gets no label-derived alert in that bucket.
C10_ProviderErrorsAbsorbed ==
    \A n \in 1..Len(trace) : \A c \in 1..Len(trace[n].calls) :
        C10_Unserved(trace[n].calls[c]) =>
            /\ trace[n].calls[c].value = ""
            /\ \A i \in 1..Len(trace[n].alerts) :
                   ~(/\ trace[n].alerts[i].slot = trace[n].calls[c].slot
                     /\ IsLabelAlert(trace[n].alerts[i], trace[n].calls[c].drug_name,
                                     trace[n].calls[c].d2))

\* The aspirin label names warfarin; the request for it timed out while the
\* pair was classified, the call returned "" and the row returned no alert.
C10_Witness ==
    /\ labels = "mentions"
    /\ \E n \in Returned : \E c \in 1..Len(trace[n].calls) :
           /\ trace[n].calls[c].drug_name = "ASPIRIN"
           /\ trace[n].calls[c].d2 = "WARFARIN"
           /\ trace[n].calls[c].requested
           /\ trace[n].calls[c].outage = "Timeout"
           /\ trace[n].calls[c].value = ""
           /\ trace[n].alerts = <<>>

-----------------------------------------------------------------------------
(* C11 *)

\* the provider cannot be reached
C11_Unreachable == {"ConnectionError", "Timeout"}

\* Every request of the run so far has met an unreachable provider.
C11_ProviderDown ==
    \A n \in 1..Len(trace) : \A c \in 1..Len(trace[n].calls) :
        trace[n].calls[c].requested => trace[n].calls[c].outage \in C11_Unreachable

\* The alerts of the knowledge base alone for a list of pair checks, in order
RECURSIVE C11_KBAlerts(_, _)
C11_KBAlerts(row_id, todo) ==
    IF todo = <<>> THEN <<>>
    ELSE (IF KBRows(todo[1].d1, todo[1].d2) = {} THEN <<>>
          ELSE <<[id |-> row_id, slot |-> todo[1].slot,
                  pair |-> todo[1].d1 \o " + " \o todo[1].d2,
                  warning |-> "[KB] " \o (CHOOSE e \in KBRows(todo[1].d1, todo[1].d2) : TRUE)[4],
                  severity |-> (CHOOSE e \in KBRows(todo[1].d1, todo[1].d2) : TRUE)[3]]>>)
         \o C11_KBAlerts(row_id, Tail(todo))

\* What the row at position n of the upload gives from the knowledge base
\* alone: a function of the text of the row and of nothing else.
C11_Expected(n) ==
    C11_KBAlerts(n, pair_checks(time_buckets_of(rows[n]).time_buckets, 1))

\* the calls of the run so far that were answered from the cache with a text
C11_ServedFromCache(t) ==
    {c \in 1..Len(t.calls) : ~t.calls[c].ran /\ t.calls[c].value # ""}

\* C11 as stated: while the provider is unreachable for the whole run, every
\* row that returns gives exactly the alerts of its knowledge-base hits.
C11_KnowledgeBaseOnly ==
    C11_ProviderDown =>
        \A n \in Returned : trace[n].alerts = C11_Expected(n)

\* C11 amended: while the provider is unreachable for the whole run, the run
\* goes on row by row and all_alerts is the alerts of the returned rows; the
\* alerts of a row are those of its knowledge-base hits, in order, and next to
\* them only alerts from label texts that the cache still held from an earlier
\* run; a row that got no text from the cache gives the knowledge-base alerts
\* exactly, a function of the text of the row alone.
C11_GracefulDegradation ==
    C11_ProviderDown =>
        /\ Len(trace) = index - 1
        /\ all_alerts = C9_Kept(Len(trace))
        /\ \A n \in Returned :
               /\ SelectSeq(trace[n].alerts, LAMBDA a : SubSeq(a.warning, 1, 4) = "[KB]")
                      = C11_Expected(n)
               /\ \A i \in 1..Len(trace[n].alerts) :
                      \/ SubSeq(trace[n].alerts[i].warning, 1, 4) = "[KB]"
                      \/ \E c \in C11_ServedFromCache(trace[n]) :
                             /\ trace[n].alerts[i].slot = trace[n].calls[c].slot
                             /\ IsLabelAlert(trace[n].alerts[i], trace[n].calls[c].drug_name,
                                             trace[n].calls[c].d2)
               /\ C11_ServedFromCache(trace[n]) = {} => trace[n].alerts = C11_Expected(n)

\* The captopril label names ibuprofen, the provider timed out on both requests
\* of the row, and the row returned the one alert of the knowledge base.
C11_Witness ==
    /\ labels = "mentions"
    /\ C11_ProviderDown
    /\ \E n \in Returned :
           /\ Len(trace[n].calls) = 2
           /\ \A c \in 1..2 : trace[n].calls[c].requested /\ trace[n].calls[c].outage = "Timeout"
           /\ trace[n].calls[2].drug_name = "CAPTOPRIL"
           /\ trace[n].calls[2].d2 = "IBUPROFEN"
           /\ Len(trace[n].alerts) = 1
           /\ trace[n].alerts = C11_Expected(n)
           /\ trace[n].alerts[1].severity = "Major"

-----------------------------------------------------------------------------
(* C12 *)

C12_Row == "AMLODIPIN 10 MG TABLET#30;FENITOIN 100MG TAB 1-0-1"

\* C12: the row of scenario A, whenever it returns, has resolved its entries to
\* AMLODIPINE and PHENYTOIN, has put the second in Morning and Night by its
\* triplet and AMLODIPINE next to it in Morning, and gives exactly one alert, of
\* the knowledge base, Major, on the metabolism of amlodipine.
C12_ScenarioA ==
    \A n \in Returned :
        rows[n] = C12_Row =>
            /\ NamesOf(trace[n]) = {"AMLODIPINE", "PHENYTOIN"}
            /\ {s \in AllSlots : "PHENYTOIN" \in Range(trace[n].time_buckets[s])} = {"Morning", "Night"}
            /\ "AMLODIPINE" \in Range(trace[n].time_buckets["Morning"])
            /\ Len(trace[n].alerts) = 1
            /\ trace[n].alerts[1].severity = "Major"
            /\ trace[n].alerts[1].warning
                   = "[KB] Phenytoin decreases levels of Amlodipine by increasing metabolism."

-----------------------------------------------------------------------------
(* C13 *)

C13_Row == "IBUPROFEN TAB;ASPIRIN TAB"

\* C13: the row of scenario B, whenever it returns, has put both names in the
\* Morning bucket and in no other, and gives exactly one alert: the pair of
\* aspirin and ibuprofen, Major, with the text of the knowledge base, whatever
\* the labels and the provider do.
C13_ScenarioB ==
    \A n \in Returned :
        rows[n] = C13_Row =>
            /\ trace[n].time_buckets
                   = [Morning |-> <<"IBUPROFEN", "ASPIRIN">>, Noon |-> <<>>, Night |-> <<>>]
            /\ trace[n].alerts
                   = <<[id |-> trace[n].row_id, slot |-> "Morning", pair |-> "ASPIRIN + IBUPROFEN",
                        warning |-> "[KB] Ibuprofen may interfere with the anti-platelet effect of low-dose Aspirin.",
                        severity |-> "Major"]>>
            /\ trace[n].calls = <<>>

\* The row of scenario B has returned second in a batch, while the aspirin label
\* names ibuprofen.
C13_Witness ==
    /\ labels = "mentions"
    /\ Len(trace) = 2
    /\ rows[2] = C13_Row
    /\ 2 \in Returned
    /\ Len(trace[2].alerts) = 1

-----------------------------------------------------------------------------
(* C14 *)

C14_Row == "UNKNOWNBRANDXYZ;ASPIRIN TAB"

\* C14: in the row of scenario C the name that no lookup matches stays the
\* literal UNKNOWNBRANDXYZ next to ASPIRIN, the pair is checked and is no key
\* of the knowledge base, and when every label text the row got was empty the
\* row has no alert.
C14_ScenarioC ==
    \A n \in Returned :
        rows[n] = C14_Row =>
            /\ trace[n].time_buckets
                   = [Morning |-> <<"UNKNOWNBRANDXYZ", "ASPIRIN">>, Noon |-> <<>>, Night |-> <<>>]
            /\ trace[n].checked = <<[slot |-> "Morning", d1 |-> "ASPIRIN", d2 |-> "UNKNOWNBRANDXYZ"]>>
            /\ KBRows("ASPIRIN", "UNKNOWNBRANDXYZ") = {}
            /\ Len(trace[n].calls) = 1
            /\ trace[n].calls[1].value = "" => trace[n].alerts = <<>>

\* The row of scenario C has returned without an alert after the request for
\* the aspirin label has failed and the call has returned "".
C14_Witness ==
    \E n \in Returned :
        /\ rows[n] = C14_Row
        /\ trace[n].calls[1].requested
        /\ trace[n].calls[1].outage = "ConnectionError"
        /\ trace[n].calls[1].value = ""
        /\ trace[n].alerts = <<>>

-----------------------------------------------------------------------------
(* C15 *)

\* the table has no key equal to the lowered candidate and no key scores 80
\* or more against it
C15_NoMatch(text) ==
    /\ ~HasKey(str_lower(text))
    /\ \/ text = ""
       \/ \A n \in 1..Len(DRUG_BY_NAME_keys) :
              WRatio(full_process(full_process(text)), full_process(DRUG_BY_NAME_keys[n])) < threshold

\* C15: a call of clean_drug_name returns a string; without the database, or
\* when the database has no match for the candidate, that string is the
\* normalized candidate itself; with a match it is the upper-cased name of a
\* row of the table.
C15_ResolverFallsBack ==
    ret # <<>> /\ DOMAIN ret[1] = {"db_available", "text"} =>
        /\ ret[1].text \in STRING
        /\ (~ret[1].db_available \/ C15_NoMatch(normalize_name(arg)))
               => ret[1].text = normalize_name(arg)
        /\ (ret[1].db_available /\ ~C15_NoMatch(normalize_name(arg)))
               => \E n \in 1..Len(DRUGS) : ret[1].text = str_upper(DRUGS[n].name)

\* With the database at hand an unknown name has come back as it was cleaned.
C15_Witness ==
    /\ arg = "UNKNOWNBRANDXYZ 500 MG 3x1"
    /\ ret = <<[db_available |-> TRUE, text |-> "UNKNOWNBRANDXYZ 3X1"]>>

-----------------------------------------------------------------------------
(* C16 *)

\* the text has a letter
C16_Alphabetic(text) ==
    \E i \in 1..Len(text) : Char(text, i) \in LowerChars \cup UpperChars

\* C16: an entry that is left without a letter is dropped: every name in a
\* bucket of a row has a letter, and so has every name of a pair check and of
\* an alert.
C16_MalformedEntryDropped ==
    \A n \in 1..Len(trace) :
        /\ \A name \in NamesOf(trace[n]) : C16_Alphabetic(name)
        /\ \A k \in 1..Len(trace[n].checked) :
               C16_Alphabetic(trace[n].checked[k].d1) /\ C16_Alphabetic(trace[n].checked[k].d2)

-----------------------------------------------------------------------------
(* C17 *)

\* the fields of the triplet of the text, <<>> if it has none
C17_Fields(text) == xyz_search(str_lower(text))

\* the slots of the fields of a triplet that evaluate to more than zero
C17_PositiveSlots(fields) ==
    {SlotOrder[k] : k \in {j \in 1..3 : eval_field(fields[j]) = "positive"}}

\* C17: when the text holds a triplet and at least one of its fields evaluates
\* to more than zero, parse_time_slots returns exactly the slots of the fields
\* that do, Morning, Noon, Night in the order of the fields, whatever keywords
\* and frequency shorthand the text holds besides.
C17_TripletAuthoritative ==
    (/\ ret # <<>>
     /\ DOMAIN ret[1] = {"raised", "slots"}
     /\ C17_Fields(arg) # <<>>
     /\ C17_PositiveSlots(C17_Fields(arg)) # {})
        => ret[1] = returns(C17_PositiveSlots(C17_Fields(arg)))

-----------------------------------------------------------------------------
(* C18 *)

\* the digits of the frequency shorthand of the text, "" if it has none
C18_Digits(text) == freq_search(str_lower(text))

\* the slots a frequency written with the digits d stands for: none for zero,
\* Morning for 1, Morning and Night for 2, all three from 3 on
C18_SlotsOf(d) ==
    LET first == {k \in 1..Len(d) : Char(d, k) # "0"}
        digits == IF first = {} THEN "" ELSE SubSeq(d, Min(first), Len(d))
    IN  IF digits = "" THEN {}
        ELSE IF digits = "1" THEN {"Morning"}
        ELSE IF digits = "2" THEN {"Morning", "Night"}
        ELSE {"Morning", "Noon", "Night"}

\* the slots the triplet of the text sets, none without a triplet
C18_TripletSlots(text) ==
    IF C17_Fields(text) = <<>> THEN {} ELSE pattern1_slots(C17_Fields(text))

\* the slots of the keywords that occur in the text
C18_KeywordSlots(text) ==
    {"Morning" : w \in {v \in {"pagi", "morning"} : str_contains(v, str_lower(text))}}
    \cup {"Noon" : w \in {v \in {"siang", "noon"} : str_contains(v, str_lower(text))}}
    \cup {"Night" : w \in {v \in {"malam", "night"} : str_contains(v, str_lower(text))}}

\* C18: for a text with a frequency shorthand N whose triplet, if any, sets no
\* slot: without a keyword, parse_time_slots returns {Morning} for N = 1,
\* {Morning, Night} for N = 2 and {Morning, Noon, Night} for every N >= 3; with a
\* keyword it returns the slots of the keywords and the frequency adds none.
C18_FrequencyFallback ==
    (/\ ret # <<>>
     /\ DOMAIN ret[1] = {"raised", "slots"}
     /\ C18_Digits(arg) # ""
     /\ C18_TripletSlots(arg) = {})
        => /\ (C18_KeywordSlots(arg) = {} /\ C18_SlotsOf(C18_Digits(arg)) # {})
                  => ret[1] = returns(C18_SlotsOf(C18_Digits(arg)))
           /\ C18_KeywordSlots(arg) # {} => ret[1] = returns(C18_KeywordSlots(arg))

-----------------------------------------------------------------------------
(* C19 *)

\* C19: for a text in which a keyword occurs, in whatever case, and whose
\* triplet, if any, sets no slot, parse_time_slots returns exactly the slots of
\* the keywords that occur: Morning for pagi or morning, Noon for siang or noon,
\* Night for malam or night, all of them when several occur.
C19_KeywordsAdditive ==
    (/\ ret # <<>>
     /\ DOMAIN ret[1] = {"raised", "slots"}
     /\ C18_TripletSlots(arg) = {}
     /\ C18_KeywordSlots(arg) # {})
        => ret[1] = returns(C18_KeywordSlots(arg))

-----------------------------------------------------------------------------
(* C20 *)

\* the words for the afternoon, in English and in Indonesian
C20_AfternoonWords == {"afternoon", "sore"}

\* C20: for a text that holds a word for the afternoon and whose triplet, if
\* any, sets no slot, parse_time_slots returns a set of slots with Night in it.
C20_AfternoonIsNight ==
    (/\ ret # <<>>
     /\ DOMAIN ret[1] = {"raised", "slots"}
     /\ C18_TripletSlots(arg) = {}
     /\ \E w \in C20_AfternoonWords : str_contains(w, str_lower(arg)))
        => ~ret[1].raised /\ "Night" \in ret[1].slots

-----------------------------------------------------------------------------
(* C21 *)

\* the names of the knowledge base
C21_KBNames == UNION {{e[1], e[2]} : e \in Range(KNOWN_INTERACTIONS)}

\* the rows of the table that name the drug of the row drug: the same generic
C21_Aliases(drug) == {n \in 1..Len(DRUGS) : DRUGS[n].generic = drug.generic}

\* C21: with the database at hand, an entry whose candidate the lookup finds
\* resolves to the one identity of its drug: every name the table has for the
\* same generic (a brand, the generic name itself) resolves to the same text,
\* and so forms the same knowledge-base keys with every other name.
C21_Canonicalization ==
    (/\ ret # <<>>
     /\ DOMAIN ret[1] = {"db_available", "text"}
     /\ ret[1].db_available
     /\ get_drug_by_name(normalize_name(arg)) # <<>>)
        => LET same(found) ==
                   \A n \in C21_Aliases(found[1]) :
                       /\ clean_drug_name_in(TRUE, DRUGS[n].name) = ret[1].text
                       /\ \A other \in C21_KBNames :
                              in_known_interactions(frozenset(clean_drug_name_in(TRUE, DRUGS[n].name), other))
                                  <=> in_known_interactions(frozenset(ret[1].text, other))
           IN  same(get_drug_by_name(normalize_name(arg)))

-----------------------------------------------------------------------------
(* C22 *)

C22_Row == "NEO RHEUMACYL TAB;ASPIRIN TAB"

\* the number of ingredient names of an entry: those of the row of the table
\* it resolves to, one for an entry the table does not know
C22_IngredientCount(item) ==
    LET count(found) == IF found = <<>> THEN 1 ELSE Len(generics_of(found[1]))
    IN  count(get_drug_by_name(normalize_name(item)))

\* the number of names the entries of a row owe to the bucket of a slot
RECURSIVE C22_Owed(_, _)
C22_Owed(items, slot) ==
    IF items = <<>> THEN 0
    ELSE (IF /\ clean_drug_name(Head(items)) # ""
             /\ ~parse_time_slots(Head(items)).raised
             /\ slot \in parse_time_slots(Head(items)).slots
          THEN C22_IngredientCount(Head(items)) ELSE 0)
         + C22_Owed(Tail(items), slot)

\* per row of the scenarios and slot, evaluated once
C22_OwedByRow == [r \in ScenarioCorpus |-> [slot \in AllSlots |-> C22_Owed(row_items(r), slot)]]

\* C22: every entry of a row puts into each of its active buckets one name per
\* ingredient of the product it resolves to: as many as the product has for a
\* combination product, one for a single-ingredient product.
C22_IngredientExpansion ==
    \A n \in Returned : \A slot \in AllSlots :
        Len(trace[n].time_buckets[slot]) = C22_OwedByRow[rows[n]][slot]

-----------------------------------------------------------------------------
(* C23 *)

C23_HighTerms == {"contraindicated", "fatal", "severe", "major", "life-threatening"}

C23_ModerateTerms == {"monitor", "caution", "risk", "adjust"}

\* the severity the keyword scan gives a text
C23_Scan(text) ==
    LET graded(lowered) ==
            IF \E w \in C23_HighTerms : str_contains(w, lowered) THEN "High"
            ELSE IF \E w \in C23_ModerateTerms : str_contains(w, lowered) THEN "Moderate"
            ELSE "Low"
    IN  graded(str_lower(text))

\* C23: the severity of an alert that comes from a label text is the one the
\* keyword scan gives the text the mention was found in: High with a
\* high-severity term, otherwise Moderate with a moderate term, otherwise Low.
C23_SeverityByKeywords ==
    \A n \in 1..Len(trace) : \A c \in 1..Len(trace[n].calls) : \A i \in 1..Len(trace[n].alerts) :
        (/\ trace[n].alerts[i].slot = trace[n].calls[c].slot
         /\ IsLabelAlert(trace[n].alerts[i], trace[n].calls[c].drug_name, trace[n].calls[c].d2))
            => trace[n].alerts[i].severity = C23_Scan(trace[n].calls[c].value)

-----------------------------------------------------------------------------
(* C24 *)

\* the label text the provider gives for a name when it answers
C24_LabelOf(name) ==
    label_text_of(name, respond([outage |-> "none", labels |-> labels], name))

\* the pair checks of a row on pairs that are no key of the knowledge base
C24_LabelChecks(t) == SelectSeq(t.checked, LAMBDA p : KBRows(p.d1, p.d2) = {})

\* the alerts of a row in a slot that come from the label of x and name y
C24_Flags(t, slot, x, y) ==
    {i \in 1..Len(t.alerts) : t.alerts[i].slot = slot /\ IsLabelAlert(t.alerts[i], x, y)}

\* every request of the row was answered by the provider
C24_Served(t) == \A c \in 1..Len(t.calls) : t.calls[c].requested => t.calls[c].outage = "none"

-----------------------------------------------------------------------------
(* C25 *)

\* the lookups of get_drug_label_text of the run so far: row and position
C25_Lookups == UNION {{<<n, c>> : c \in 1..Len(trace[n].calls)} : n \in 1..Len(trace)}

C25_Call(l) == trace[l[1]].calls[l[2]]

\* lookup a was made before lookup b
C25_Before(a, b) == a[1] < b[1] \/ (a[1] = b[1] /\ a[2] < b[2])

\* C25: the results of get_drug_label_text are kept per drug name for the
\* time-to-live. Two requests to the provider for one name lie at least ttl
\* apart; a lookup less than ttl after a request for its name is answered with
\* the result of that request and runs nothing; and once ttl has passed since a
\* request, a lookup for the name has a new request at or before it.
C25_Memoization ==
    \A a, b \in C25_Lookups :
        (/\ C25_Before(a, b)
         /\ C25_Call(a).requested
         /\ C25_Call(a).drug_name = C25_Call(b).drug_name)
            => /\ C25_Call(b).requested => C25_Call(b).at - C25_Call(a).at >= ttl
               /\ C25_Call(b).at - C25_Call(a).at < ttl
                      => ~C25_Call(b).ran /\ C25_Call(b).value = C25_Call(a).value
               /\ C25_Call(b).at - C25_Call(a).at >= ttl
                      => \E r \in C25_Lookups :
                             /\ C25_Before(a, r)
                             /\ r = b \/ C25_Before(r, b)
                             /\ C25_Call(r).drug_name = C25_Call(b).drug_name
                             /\ C25_Call(r).requested

\* The aspirin label was requested for the first row at time 0, and again
\* for the second row when the time-to-live had passed.
C25_Witness ==
    /\ Len(trace) = 2
    /\ trace[1].calls # <<>> /\ trace[2].calls # <<>>
    /\ trace[1].calls[1].drug_name = "ASPIRIN" /\ trace[2].calls[1].drug_name = "ASPIRIN"
    /\ trace[1].calls[1].requested /\ trace[1].calls[1].at = 0
    /\ trace[2].calls[1].requested /\ trace[2].calls[1].at = ttl

-----------------------------------------------------------------------------
(* C26 *)

\* the best similarity score of a candidate against the keys of the table
C26_Best(text) ==
    Max({WRatio(full_process(full_process(text)), full_process(DRUG_BY_NAME_keys[n])) :
            n \in 1..Len(DRUG_BY_NAME_keys)})

\* the call went to the fuzzy match: the database is at hand and the candidate
\* is not empty and is no key of the table
C26_Fuzzy ==
    /\ ret # <<>>
    /\ DOMAIN ret[1] = {"db_available", "text"}
    /\ ret[1].db_available
    /\ normalize_name(arg) # ""
    /\ ~HasKey(str_lower(normalize_name(arg)))

\* C26 as stated: a candidate whose best score is below 88 is not merged into a
\* name of the table: clean_drug_name returns the candidate itself.
C26_ThresholdAbout88 ==
    (C26_Fuzzy /\ C26_Best(normalize_name(arg)) < 88)
        => ret[1].text = normalize_name(arg)

\* C26 amended: the threshold is 80. A candidate whose best score is 80 or more
\* is merged into the name of the table with that score, and one whose best
\* score is below 80 is returned as it is.
C26_Threshold80 ==
    C26_Fuzzy =>
        /\ C26_Best(normalize_name(arg)) < threshold => ret[1].text = normalize_name(arg)
        /\ C26_Best(normalize_name(arg)) >= threshold =>
               /\ ret[1].text # normalize_name(arg)
               /\ \E n \in 1..Len(DRUG_BY_NAME_keys) :
                      /\ WRatio(full_process(full_process(normalize_name(arg))),
                                full_process(DRUG_BY_NAME_keys[n]))
                             = C26_Best(normalize_name(arg))
                      /\ ret[1].text = str_upper(DRUG_BY_NAME(DRUG_BY_NAME_keys[n]).name)

\* A misspelling that scores 86 against aspirin has been merged into ASPIRIN.
C26_Witness ==
    /\ arg = "ASPARIN"
    /\ C26_Fuzzy
    /\ C26_Best("ASPARIN") = 86
    /\ ret[1].text = "ASPIRIN"

-----------------------------------------------------------------------------
(* C27 *)

\* the place of a slot in the order Morning, Noon, Night
C27_Place(slot) == CHOOSE k \in 1..3 : <<"Morning", "Noon", "Night">>[k] = slot

\* (bucket, first name, second name) of p comes before that of q
C27_Precedes(p, q) ==
    \/ C27_Place(p.slot) < C27_Place(q.slot)
    \/ /\ p.slot = q.slot
       /\ \/ str_less(p.d1, q.d1)
          \/ p.d1 = q.d1 /\ str_less(p.d2, q.d2)

\* the pair checks of a row an alert can be the alert of
C27_CheckOf(t, i) ==
    {k \in 1..Len(t.checked) :
        /\ t.checked[k].slot = t.alerts[i].slot
        /\ t.alerts[i].pair = t.checked[k].d1 \o " + " \o t.checked[k].d2}

\* C27: the pairs of a row are visited bucket by bucket in the order Morning,
\* Noon, Night and within a bucket in ascending order of the first and then of
\* the second name; the alerts of the row stand in the order of the checks they
\* come from; and of two alerts for one pair the earlier one is from the
\* earlier bucket.
C27_AlertOrder ==
    \A n \in 1..Len(trace) :
        /\ \A k, l \in 1..Len(trace[n].checked) :
               k < l => C27_Precedes(trace[n].checked[k], trace[n].checked[l])
        /\ \A i \in 1..Len(trace[n].alerts) : Cardinality(C27_CheckOf(trace[n], i)) = 1
        /\ \A i, j \in 1..Len(trace[n].alerts) :
               i < j =>
                   /\ \A k \in C27_CheckOf(trace[n], i), l \in C27_CheckOf(trace[n], j) : k < l
                   /\ trace[n].alerts[i].pair = trace[n].alerts[j].pair
                          => C27_Place(trace[n].alerts[i].slot) < C27_Place(trace[n].alerts[j].slot)

\* One row has returned the alert of aspirin with ibuprofen for Morning and
\* then for Night, and another two alerts of one bucket in the order of names.
C27_Witness ==
    \E n, m \in Returned :
        /\ Len(trace[n].alerts) = 2
        /\ trace[n].alerts[1].pair = trace[n].alerts[2].pair
        /\ trace[n].alerts[1].slot = "Morning" /\ trace[n].alerts[2].slot = "Night"
        /\ Len(trace[m].alerts) = 2
        /\ trace[m].alerts[1].slot = trace[m].alerts[2].slot
        /\ trace[m].alerts[1].pair = "ASPIRIN + IBUPROFEN"
        /\ trace[m].alerts[2].pair = "CAPTOPRIL + IBUPROFEN"

-----------------------------------------------------------------------------
(* C28 *)

\* the alerts of the run so far: row and position
C28_Alerts == UNION {{<<n, i>> : i \in 1..Len(trace[n].alerts)} : n \in 1..Len(trace)}

\* the pairs <<d1, d2>> of the checks an alert can come from
C28_PairsOf(a) ==
    {<<trace[a[1]].checked[k].d1, trace[a[1]].checked[k].d2>> :
        k \in C27_CheckOf(trace[a[1]], a[2])}

\* C28: the 'Drug Pair' of every alert is "first + second" for two different
\* names of a checked pair with first < second, and two alerts for the same
\* unordered pair carry the same label, whatever the order of the entries, the
\* bucket and the row.
C28_PairLabel ==
    /\ \A a \in C28_Alerts :
           /\ C28_PairsOf(a) # {}
           /\ \A p \in C28_PairsOf(a) : p[1] # p[2] /\ str_less(p[1], p[2])
    /\ \A a, b \in C28_Alerts :
           (\E p \in C28_PairsOf(a), q \in C28_PairsOf(b) : {p[1], p[2]} = {q[1], q[2]})
               => trace[a[1]].alerts[a[2]].pair = trace[b[1]].alerts[b[2]].pair

\* A row that lists IBUPROFEN before ASPIRIN and a row that lists ASPIRIN
\* before IBUPROFEN have both returned alerts labelled ASPIRIN + IBUPROFEN, for
\* the buckets Morning and Night.
C28_Witness ==
    /\ Len(trace) = 2
    /\ Returned = {1, 2}
    /\ rows[1] = "IBUPROFEN TAB;ASPIRIN TAB"
    /\ rows[2] = "ASPIRIN:1-0-1;IBUPROFEN:1-0-1"
    /\ Len(trace[1].alerts) = 1 /\ Len(trace[2].alerts) = 2
    /\ \A a \in C28_Alerts : trace[a[1]].alerts[a[2]].pair = "ASPIRIN + IBUPROFEN"
    /\ trace[2].alerts[2].slot = "Night"

-----------------------------------------------------------------------------
(* C29 *)

\* the entries of a row, each with the name it resolves to and the slots it
\* parses to (none when the parse raises), evaluated once per row of the corpus
C29_Entries ==
    [r \in RowCorpus |->
        [k \in 1..Len(row_items(r)) |->
            [name |-> clean_drug_name(row_items(r)[k]),
             slots |-> IF parse_time_slots(row_items(r)[k]).raised THEN {}
                       ELSE parse_time_slots(row_items(r)[k]).slots]]]

\* some entry of the row resolves to the name and has the slot among its slots
C29_PlacedBy(r, name, slot) ==
    \E k \in 1..Len(C29_Entries[r]) :
        C29_Entries[r][k].name = name /\ slot \in C29_Entries[r][k].slots

\* C29: every alert of a returned row carries the id of that row and one of the
\* slots Morning, Noon, Night, and its pair is made of two names of that slot's
\* bucket, each put there by an entry of the same row that parses to the slot.
C29_AlertSoundness ==
    \A n \in Returned : \A i \in 1..Len(trace[n].alerts) :
        /\ trace[n].alerts[i].id = trace[n].row_id
        /\ trace[n].row_id = n
        /\ trace[n].alerts[i].slot \in {"Morning", "Noon", "Night"}
        /\ \E x, y \in Range(trace[n].time_buckets[trace[n].alerts[i].slot]) :
               /\ trace[n].alerts[i].pair = x \o " + " \o y
               /\ C29_PlacedBy(rows[n], x, trace[n].alerts[i].slot)
               /\ C29_PlacedBy(rows[n], y, trace[n].alerts[i].slot)

\* After a row with warfarin and aspirin at night, a row with ibuprofen and
\* aspirin in the morning has returned one alert, for its own two names.
C29_Witness ==
    /\ Len(trace) = 2
    /\ Returned = {1, 2}
    /\ rows[1] = "WARFARIN:0-0-1\nASPIRIN:0-0-1"
    /\ rows[2] = "IBUPROFEN TAB;ASPIRIN TAB"
    /\ Len(trace[1].alerts) = 1
    /\ trace[1].alerts[1].pair = "ASPIRIN + WARFARIN" /\ trace[1].alerts[1].slot = "Night"
    /\ Len(trace[2].alerts) = 1
    /\ trace[2].alerts[1].pair = "ASPIRIN + IBUPROFEN" /\ trace[2].alerts[1].slot = "Morning"
    /\ trace[2].alerts[1].id = 2
    /\ Len(all_alerts) = 2

-----------------------------------------------------------------------------
(* C30 *)

\* the request of the lookup failed at the provider
C30_Failed(l) == C25_Call(l).requested /\ C25_Call(l).outage # "none"

\* C30: a lookup whose request failed has returned "", and every later lookup
\* of the same name less than ttl after it returns "" as well, without running
\* the function and without a request, whatever the provider would answer then.
C30_FailureMemoized ==
    \A a \in C25_Lookups :
        C30_Failed(a) =>
            /\ C25_Call(a).value = ""
            /\ \A b \in C25_Lookups :
                   (/\ C25_Before(a, b)
                    /\ C25_Call(b).drug_name = C25_Call(a).drug_name
                    /\ C25_Call(b).at - C25_Call(a).at < ttl)
                       => /\ ~C25_Call(b).ran
                          /\ ~C25_Call(b).requested
                          /\ C25_Call(b).value = ""

\* The aspirin label names warfarin. The request for it timed out in the
\* first row; the second row, the same entries half a time-to-live later, got
\* "" from the cache and returned no alert, where the row returns one alert
\* when it is analysed with an empty cache and the provider answering.
C30_Witness ==
    /\ labels = "mentions"
    /\ Len(trace) = 2
    /\ Returned = {1, 2}
    /\ rows[1] = "WARFARIN:0-0-1\nASPIRIN:0-0-1"
    /\ rows[2] = rows[1]
    /\ C30_Failed(<<1, 1>>)
    /\ C25_Call(<<1, 1>>).outage = "Timeout"
    /\ C25_Call(<<2, 1>>).drug_name = "ASPIRIN"
    /\ C25_Call(<<2, 1>>).at = TickSeconds
    /\ ~C25_Call(<<2, 1>>).ran
    /\ C25_Call(<<2, 1>>).value = ""
    /\ trace[2].alerts = <<>>
    /\ Len(analyze_row(rows[2], 2, {}, now, [outage |-> "none", labels |-> labels], <<>>).alerts) = 1

====
